---- MODULE Spec2Model ----
(***************************************************************************)
(* Verification model of the matching / ranking engine of                  *)
(* Climate_Scenario_HIS_Project:                                           *)
(*   backend/matching.py                (parse_query, score_provider)      *)
(*   backend/recommendation_service.py  (coverage metrics, ranking)        *)
(*                                                                         *)
(* Python strings are modelled as sequences of one-character strings, so   *)
(* that lower(), upper(), capitalize(), split(), the regular expressions   *)
(* and the `in` substring test are computed and not assumed.               *)
(* Optional values (None or a value) are modelled as sets with at most     *)
(* one element: None is {} and a value v is {v}.                           *)
(***************************************************************************)
EXTENDS Integers, Sequences, FiniteSets, TLC

(***************************************************************************)
(* Bounds of the model                                                     *)
(***************************************************************************)
MaxTokens == 3

(***************************************************************************)
(* Python str primitives                                                   *)
(***************************************************************************)
UpperLetters ==
  <<"A","B","C","D","E","F","G","H","I","J","K","L","M",
    "N","O","P","Q","R","S","T","U","V","W","X","Y","Z">>

LowerLetters ==
  <<"a","b","c","d","e","f","g","h","i","j","k","l","m",
    "n","o","p","q","r","s","t","u","v","w","x","y","z">>

DigitChars == <<"0","1","2","3","4","5","6","7","8","9">>

WhitespaceChars == {" ", "\t", "\n"}

IndexIn(c, alphabet) ==
  IF \E i \in 1..Len(alphabet) : alphabet[i] = c
  THEN CHOOSE i \in 1..Len(alphabet) : alphabet[i] = c
  ELSE 0

\* the lower-case letter of each upper-case letter, and conversely
LowerOf == [c \in {UpperLetters[i] : i \in 1..26} |-> LowerLetters[IndexIn(c, UpperLetters)]]

UpperOf == [c \in {LowerLetters[i] : i \in 1..26} |-> UpperLetters[IndexIn(c, LowerLetters)]]

LowerChar(c) == IF c \in DOMAIN LowerOf THEN LowerOf[c] ELSE c

UpperChar(c) == IF c \in DOMAIN UpperOf THEN UpperOf[c] ELSE c

IsDigit(c) == IndexIn(c, DigitChars) > 0

DigitVal(c) == IndexIn(c, DigitChars) - 1

\* str.lower()
Lower(s) == [i \in 1..Len(s) |-> LowerChar(s[i])]

\* str.upper()
Upper(s) == [i \in 1..Len(s) |-> UpperChar(s[i])]

\* a capitalize() that leaves the first character as it is
Capitalize_NoUpper(s) == [i \in 1..Len(s) |-> LowerChar(s[i])]

\* str.capitalize(): first character upper-cased, the rest lower-cased
Capitalize(s) == [i \in 1..Len(s) |-> IF i = 1 THEN UpperChar(s[i]) ELSE LowerChar(s[i])]

\* str.startswith-at-offset: p occurs in s at position i (1-based)
OccursAt(p, s, i) ==
  /\ i + Len(p) - 1 <= Len(s)
  /\ \A k \in 1..Len(p) : s[i + k - 1] = p[k]

\* the Python test `p in s` on strings (the empty string is in every string)
Contains(s, p) == \E i \in 1..(Len(s) + 1) : OccursAt(p, s, i)

\* str.split() without argument: split on runs of whitespace, no empty tokens
RECURSIVE SplitFrom(_, _, _, _)
SplitFrom(s, i, cur, acc) ==
  IF i > Len(s)
  THEN IF cur = <<>> THEN acc ELSE Append(acc, cur)
  ELSE IF s[i] \in WhitespaceChars
       THEN SplitFrom(s, i + 1, <<>>, IF cur = <<>> THEN acc ELSE Append(acc, cur))
       ELSE SplitFrom(s, i + 1, Append(cur, s[i]), acc)

Split(s) == SplitFrom(s, 1, <<>>, <<>>)

\* str.split("|")[0]: the part before the first '|' (the whole string if none)
RECURSIVE PrefixBeforePipeFrom(_, _)
PrefixBeforePipeFrom(s, i) ==
  IF i > Len(s) \/ s[i] = "|" THEN SubSeq(s, 1, i - 1)
  ELSE PrefixBeforePipeFrom(s, i + 1)

PrefixBeforePipe(s) == PrefixBeforePipeFrom(s, 1)

\* int(t) accepts t when it is a run of decimal digits, single underscores
\* between digits allowed; anything else raises ValueError
IsIntLiteral(t) ==
  /\ Len(t) > 0
  /\ \A i \in 1..Len(t) :
       \/ IsDigit(t[i])
       \/ /\ t[i] = "_"
          /\ i > 1 /\ i < Len(t)
          /\ IsDigit(t[i-1]) /\ IsDigit(t[i+1])

RECURSIVE IntOfFrom(_, _, _)
IntOfFrom(t, i, acc) ==
  IF i > Len(t) THEN acc
  ELSE IF t[i] = "_" THEN IntOfFrom(t, i + 1, acc)
       ELSE IntOfFrom(t, i + 1, 10 * acc + DigitVal(t[i]))

IntOf(t) == IntOfFrom(t, 1, 0)

\* max() of a set of numbers, 0 for the empty set
MaxOf(S) == IF S = {} THEN 0 ELSE CHOOSE x \in S : \A y \in S : y <= x

\* Python truthiness of an optional int: None and 0 are falsy
TruthyInt(o) == o # {} /\ 0 \notin o

\* Python truthiness of an optional str: None and "" are falsy
TruthyStr(o) == o # {} /\ <<>> \notin o

NoneVal == {}

Some(v) == {v}

(***************************************************************************)
(* String literals of parse_query                                          *)
(***************************************************************************)

S_annual == <<"a","n","n","u","a","l">>

S_decadal == <<"d","e","c","a","d","a","l">>

(***************************************************************************)
(* matching.py, section 3: parse_query                                     *)
(***************************************************************************)
\* re.compile(r"ssp\d.*").match(t)
scen_re(t) ==
  /\ Len(t) >= 4
  /\ SubSeq(t, 1, 3) = <<"s","s","p">>
  /\ IsDigit(t[4])

\* re.compile(r"\d{4}").match(t): anchored at the start only
year_re(t) ==
  /\ Len(t) >= 4
  /\ \A i \in 1..4 : IsDigit(t[i])

\* re.compile(r".*\|.*").match(t)
var_pipe_re(t) == \E i \in 1..Len(t) : t[i] = "|"

known_regions ==
  {<<"i","n","d","i","a">>, <<"c","h","i","n","a">>, <<"u","s","a">>,
   <<"w","o","r","l","d">>, <<"e","u","r","o","p","e">>,
   <<"g","e","r","m","a","n","y">>}

granularity_keywords ==
  {S_annual, <<"y","e","a","r","l","y">>, <<"5","-","y","e","a","r">>, S_decadal}

bare_variables ==
  {<<"g","d","p">>, <<"p","o","p","u","l","a","t","i","o","n">>, <<"c","o","2">>,
   <<"e","m","i","s","s","i","o","n","s">>}

\* the locals of parse_query before the loop
EmptyQuery ==
  [variables |-> <<>>, regions |-> <<>>, scenarios |-> <<>>,
   granularity |-> NoneVal, start_year |-> NoneVal, end_year |-> NoneVal]

\* the year branch: y = int(t); if not start_year: start_year = y else: end_year = y
YearBranch(q, t) ==
  IF ~TruthyInt(q.start_year)
  THEN [q EXCEPT !.start_year = Some(IntOf(t))]
  ELSE [q EXCEPT !.end_year = Some(IntOf(t))]

\* the if/elif chain with the pipe test moved ahead of the scenario test
ParseToken_PipeFirst(q, t) ==
  IF var_pipe_re(t) THEN [q EXCEPT !.variables = Append(@, t)]
  ELSE IF scen_re(t) THEN [q EXCEPT !.scenarios = Append(@, Upper(t))]
  ELSE IF t \in known_regions THEN [q EXCEPT !.regions = Append(@, Capitalize(t))]
  ELSE IF t \in granularity_keywords THEN [q EXCEPT !.granularity = Some(t)]
  ELSE IF year_re(t) THEN YearBranch(q, t)
  ELSE IF t \in bare_variables THEN [q EXCEPT !.variables = Append(@, t)]
  ELSE q

\* one iteration of `for t in tokens`: the if/elif chain
ParseToken(q, t) ==
  IF scen_re(t) THEN [q EXCEPT !.scenarios = Append(@, Upper(t))]
  ELSE IF var_pipe_re(t) THEN [q EXCEPT !.variables = Append(@, t)]
  ELSE IF t \in known_regions THEN [q EXCEPT !.regions = Append(@, Capitalize(t))]
  ELSE IF t \in granularity_keywords THEN [q EXCEPT !.granularity = Some(t)]
  ELSE IF year_re(t) THEN YearBranch(q, t)
  ELSE IF t \in bare_variables THEN [q EXCEPT !.variables = Append(@, t)]
  ELSE q

\* int(t) is reached, and raises ValueError, in the year branch only
TokenRaises(t) ==
  /\ ~scen_re(t) /\ ~var_pipe_re(t)
  /\ t \notin known_regions /\ t \notin granularity_keywords
  /\ year_re(t)
  /\ ~IsIntLiteral(t)

RECURSIVE ParseLoop(_, _, _)
ParseLoop(tokens, i, q) ==
  IF i > Len(tokens) THEN [raised |-> FALSE, q |-> q]
  ELSE IF TokenRaises(tokens[i]) THEN [raised |-> TRUE, q |-> EmptyQuery]
       ELSE ParseLoop(tokens, i + 1, ParseToken(q, tokens[i]))

\* parse_query(text): tokens = text.lower().split(), then the loop
parse_query(text) == ParseLoop(Split(Lower(text)), 1, EmptyQuery)

(***************************************************************************)
(* Exact arithmetic on scores.  A score is a reduced fraction              *)
(* [n |-> numerator, d |-> denominator > 0]; the code computes the same    *)
(* quantities in binary floating point.                                    *)
(***************************************************************************)
RECURSIVE GCD(_, _)
GCD(a, b) == IF b = 0 THEN a ELSE GCD(b, a % b)

Frac(n, d) ==
  IF n = 0 THEN [n |-> 0, d |-> 1]
  ELSE [n |-> n \div GCD(n, d), d |-> d \div GCD(n, d)]

AddF(a, b) == Frac(a.n * b.d + b.n * a.d, a.d * b.d)

LeqF(a, b) == a.n * b.d <= b.n * a.d

LtF(a, b) == a.n * b.d < b.n * a.d

ZeroF == Frac(0, 1)

(***************************************************************************)
(* matching.py: weights (in hundredths) and similarity grades (in tenths)  *)
(***************************************************************************)
W_VAR == 40

W_SCEN == 25

W_GRAN == 10

W_AVAIL == 10

SIM_EXACT == 10

SIM_SUBSTRING == 8

SIM_PARTIAL == 5

SIM_NONE == 0

\* a weight as a score: W / 100
Weight(w) == Frac(w, 100)

(***************************************************************************)
(* matching.py, section 1: helper matchers                                 *)
(***************************************************************************)
\* a containment test in one direction only
semantic_match_OneWay(q, p) ==
  LET ql == Lower(q)
      pl == Lower(p)
  IN IF ql = pl THEN SIM_EXACT
     ELSE IF Contains(pl, ql) THEN SIM_SUBSTRING
     ELSE SIM_NONE

semantic_match(q, p) ==
  LET ql == Lower(q)
      pl == Lower(p)
  IN IF ql = pl THEN SIM_EXACT
     ELSE IF Contains(pl, ql) \/ Contains(ql, pl) THEN SIM_SUBSTRING
     ELSE SIM_NONE

\* the third test made on the whole token instead of qv.split("|")[0]
var_match_WholeToken(q_var, prov_var) ==
  LET qv == Lower(q_var)
      pv == Lower(prov_var)
  IN IF qv = pv THEN SIM_EXACT
     ELSE IF Contains(pv, qv) THEN SIM_SUBSTRING
     ELSE IF Contains(pv, qv) THEN SIM_PARTIAL
     ELSE IF Contains(qv, pv) THEN SIM_PARTIAL
     ELSE SIM_NONE

var_match(q_var, prov_var) ==
  LET qv == Lower(q_var)
      pv == Lower(prov_var)
  IN IF qv = pv THEN SIM_EXACT
     ELSE IF Contains(pv, qv) THEN SIM_SUBSTRING
     ELSE IF Contains(pv, PrefixBeforePipe(qv)) THEN SIM_PARTIAL
     ELSE IF Contains(qv, pv) THEN SIM_PARTIAL
     ELSE SIM_NONE

(***************************************************************************)
(* matching.py, section 2: score_provider                                  *)
(***************************************************************************)
\* an entry of matched[...]
MatchEntry(qv, pv, sim) == [query |-> qv, provider |-> pv, similarity |-> sim]

\* for a in qs: for b in ps: sim = semantic_match(a, b); if sim > 0: append
\* (the loops over regions and over scenarios), in iteration order
SemanticPairs(qs, ps) ==
  LET n == Len(qs) * Len(ps)
      All == [k \in 1..n |->
                LET a == qs[((k - 1) \div Len(ps)) + 1]
                    b == ps[((k - 1) % Len(ps)) + 1]
                IN MatchEntry(a, b, semantic_match(a, b))]
      Positive(e) == e.similarity > 0
  IN SelectSeq(All, Positive)

\* the inner loop over provider["variables"]: best and best_p, updated on
\* a strictly greater similarity only
RECURSIVE BestVar(_, _, _, _, _)
BestVar(qv, pvars, j, best, best_p) ==
  IF j > Len(pvars) THEN [best |-> best, best_p |-> best_p]
  ELSE LET sim == var_match(qv, pvars[j]) IN
         IF sim > best THEN BestVar(qv, pvars, j + 1, sim, Some(pvars[j]))
         ELSE BestVar(qv, pvars, j + 1, best, best_p)

\* the outer loop over q["variables"]: entries are appended for best > 0 only
VariableMatches(qvars, pvars) ==
  LET All == [i \in 1..Len(qvars) |->
                LET b == BestVar(qvars[i], pvars, 1, 0, NoneVal) IN
                  MatchEntry(qvars[i], b.best_p, b.best)]
      Positive(e) == e.similarity > 0
  IN SelectSeq(All, Positive)

RECURSIVE SumSim(_)
SumSim(entries) ==
  IF entries = <<>> THEN 0 ELSE entries[1].similarity + SumSim(Tail(entries))

\* if q["variables"]: ... if var_scores: the division by len(var_scores)
\* is executed
VariableDivides(q, var_matches) == q.variables # <<>> /\ var_matches # <<>>

\* if var_scores: score += (sum(var_scores) / len(var_scores)) * W_VAR
VariableScore(q, var_matches) ==
  IF VariableDivides(q, var_matches)
  THEN Frac(SumSim(var_matches) * W_VAR, Len(var_matches) * 10 * 100)
  ELSE ZeroF

\* the scenario sum divided by the number of matches, as the variable branch does
ScenarioScore_PerMatch(q, scen_matches) ==
  IF q.scenarios # <<>> /\ scen_matches # <<>>
  THEN Frac(SumSim(scen_matches) * W_SCEN, Len(scen_matches) * 10 * 100)
  ELSE ZeroF

\* if q["scenarios"]: ... if scen_scores: the division by
\* len(q["scenarios"]) is executed
ScenarioDivides(q, scen_matches) == q.scenarios # <<>> /\ scen_matches # <<>>

\* a division executed with divisor 0 raises ZeroDivisionError
ZeroDivides(q, var_matches, scen_matches) ==
  \/ VariableDivides(q, var_matches) /\ Len(var_matches) = 0
  \/ ScenarioDivides(q, scen_matches) /\ Len(q.scenarios) = 0

\* if scen_scores: score += (sum(scen_scores) / len(q["scenarios"])) * W_SCEN
ScenarioScore(q, scen_matches) ==
  IF ScenarioDivides(q, scen_matches)
  THEN Frac(SumSim(scen_matches) * W_SCEN, Len(q.scenarios) * 10 * 100)
  ELSE ZeroF

\* q["granularity"] and q["granularity"] == provider["granularity"];
\* provider["granularity"] is evaluated only when q["granularity"] is truthy
\* and raises KeyError when the provider has no such key
GranularityRaises(provider, q) ==
  TruthyStr(q.granularity) /\ provider.granularity = NoneVal

GranularityScore(provider, q) ==
  IF TruthyStr(q.granularity) /\ q.granularity = provider.granularity
  THEN Weight(W_GRAN) ELSE ZeroF

\* a year test that counts unset years as covered
AvailabilityScore_UnsetCovers(provider, q) ==
  IF /\ \A sy \in q.start_year : provider.years.min <= sy
     /\ \A ey \in q.end_year : provider.years.max >= ey
  THEN Weight(W_AVAIL) ELSE ZeroF

\* if q["start_year"] and q["end_year"]: ... ymin <= start and ymax >= end
AvailabilityScore(provider, q) ==
  IF /\ TruthyInt(q.start_year) /\ TruthyInt(q.end_year)
     /\ \A sy \in q.start_year : provider.years.min <= sy
     /\ \A ey \in q.end_year : provider.years.max >= ey
  THEN Weight(W_AVAIL) ELSE ZeroF

\* a region filter that never returns early
GateRejects_NoReturn(q, region_matches) == FALSE

\* if q["regions"]: ... if not matched["regions"]: return 0.0, None
GateRejects(q, region_matches) == q.regions # <<>> /\ region_matches = <<>>

\* a missing list that names every dimension without a match, requested or not
Explanation_MissingUnrequested(q, matched) ==
  LET IsMatched(k) == matched[k] # <<>>
      IsMissing(k) == matched[k] = <<>>
  IN [matched |-> [k \in {x \in DOMAIN matched : IsMatched(x)} |-> matched[k]],
      missing |-> SelectSeq(<<"variables", "regions", "scenarios">>, IsMissing)]

\* explanation = {"matched": {k: v if v}, "missing": [k if not v and q.get(k)]}
Explanation(q, matched) ==
  LET IsMatched(k) == matched[k] # <<>>
      IsMissing(k) == matched[k] = <<>> /\ q[k] # <<>>
  IN [matched |-> [k \in {x \in DOMAIN matched : IsMatched(x)} |-> matched[k]],
      missing |-> SelectSeq(<<"variables", "regions", "scenarios">>, IsMissing)]

\* a region block that rewards a matched region
RegionScore_Weighted(region_matches) ==
  IF region_matches # <<>> THEN Weight(W_GRAN) ELSE ZeroF

\* the region block (lines 56-69) records region_matches and returns at the
\* gate; it has no `score +=`
RegionScore(region_matches) == ZeroF

NoContribution == [var |-> ZeroF, scen |-> ZeroF, gran |-> ZeroF, avail |-> ZeroF]

\* score_provider(provider, q): the outcome ("returned", "raised" for the
\* KeyError of a missing granularity, "zero_division"), the returned pair
\* and the four amounts added to score on the way
score_provider(provider, q) ==
  LET region_matches ==
        IF q.regions # <<>> THEN SemanticPairs(q.regions, provider.regions) ELSE <<>>
      var_matches ==
        IF q.variables # <<>> THEN VariableMatches(q.variables, provider.variables) ELSE <<>>
      scen_matches ==
        IF q.scenarios # <<>> THEN SemanticPairs(q.scenarios, provider.scenarios) ELSE <<>>
      matched == [variables |-> var_matches, regions |-> region_matches,
                  scenarios |-> scen_matches]
      contrib == [var |-> VariableScore(q, var_matches),
                  scen |-> ScenarioScore(q, scen_matches),
                  gran |-> GranularityScore(provider, q),
                  avail |-> AvailabilityScore(provider, q)]
  IN IF GateRejects(q, region_matches)
     THEN [outcome |-> "returned", score |-> ZeroF, explanation |-> NoneVal,
           contrib |-> NoContribution]
     ELSE IF ZeroDivides(q, var_matches, scen_matches)
     THEN [outcome |-> "zero_division", score |-> ZeroF, explanation |-> NoneVal,
           contrib |-> NoContribution]
     ELSE IF GranularityRaises(provider, q)
     THEN [outcome |-> "raised", score |-> ZeroF, explanation |-> NoneVal,
           contrib |-> NoContribution]
     ELSE [outcome |-> "returned",
           score |-> AddF(RegionScore(region_matches),
                          AddF(AddF(contrib.var, contrib.scen),
                               AddF(contrib.gran, contrib.avail))),
           explanation |-> Some(Explanation(q, matched)),
           contrib |-> contrib]

(***************************************************************************)
(* matching.py, section 5: match_providers                                 *)
(*                                                                         *)
(* A provider of the catalog carries, besides the fields score_provider    *)
(* reads, latest_file and models; each is a set, empty when the key is     *)
(* absent.                                                                 *)
(***************************************************************************)
\* a test that lets a score of 0 through
Appended_NonNegative(score) == LeqF(ZeroF, score)

\* if score > 0: results.append(...)
Appended(score) == LtF(ZeroF, score)

\* p["latest_file"] raises KeyError when the provider has no such key
EntryRaises(p) == p.latest_file = NoneVal

\* the dict appended to results; p.get("models", [])
ResultEntry(p, r) ==
  [provider_id |-> p.id, score |-> r.score, explanation |-> r.explanation,
   latest_file |-> p.latest_file, variables |-> p.variables,
   scenarios |-> p.scenarios, regions |-> p.regions,
   models |-> IF p.models = NoneVal THEN <<>> ELSE CHOOSE m \in p.models : TRUE]

\* an insertion that puts an entry before the entries of equal score
RECURSIVE InsertResult_TiesReversed(_, _)
InsertResult_TiesReversed(sorted, r) ==
  IF sorted = <<>> THEN <<r>>
  ELSE IF LtF(r.score, sorted[1].score)
       THEN <<sorted[1]>> \o InsertResult_TiesReversed(Tail(sorted), r)
       ELSE <<r>> \o sorted

\* results.sort(key=score, reverse=True): stable, so an entry goes after
\* the entries of greater or equal score that precede it
RECURSIVE InsertResult(_, _)
InsertResult(sorted, r) ==
  IF sorted = <<>> THEN <<r>>
  ELSE IF LeqF(r.score, sorted[1].score)
       THEN <<sorted[1]>> \o InsertResult(Tail(sorted), r)
       ELSE <<r>> \o sorted

RECURSIVE SortResults(_, _)
SortResults(items, acc) ==
  IF items = <<>> THEN acc
  ELSE SortResults(Tail(items), InsertResult(acc, items[1]))

\* score_provider(p, parsed) of each p of the catalog, in catalog order
RECURSIVE ScoreAll(_, _)
ScoreAll(providers, parsed) ==
  IF providers = <<>> THEN <<>>
  ELSE <<score_provider(providers[1], parsed)>> \o ScoreAll(Tail(providers), parsed)

\* the call raised: nothing is returned
MatchRaised ==
  [outcome |-> "raised", parsedQuery |-> EmptyQuery, providers |-> <<>>, scores |-> <<>>]

\* the loop over the catalog and the sort, given each provider's
\* (score, explanation): "raised" when score_provider or the construction
\* of an entry raised
MatchLoop(parsed, providers, scores) ==
  LET Raises(i) ==
        \/ scores[i].outcome # "returned"
        \/ Appended(scores[i].score) /\ EntryRaises(providers[i])
      indices == [i \in 1..Len(providers) |-> i]
      Kept(i) == Appended(scores[i].score)
      kept == SelectSeq(indices, Kept)
      results == [k \in 1..Len(kept) |-> ResultEntry(providers[kept[k]], scores[kept[k]])]
  IN IF \E i \in 1..Len(providers) : Raises(i) THEN MatchRaised
     ELSE [outcome |-> "returned", parsedQuery |-> parsed,
           providers |-> SortResults(results, <<>>), scores |-> scores]

\* match_providers(query_text) over the catalog `providers`: the outcome
\* ("raised" when parse_query, score_provider or the entry construction
\* raises), the returned dict, and each provider's (score, explanation)
match_providers(query_text, providers) ==
  CHOOSE r \in UNION {IF pr.raised THEN {MatchRaised}
                      ELSE {MatchLoop(pr.q, providers, scores) :
                              scores \in {ScoreAll(providers, pr.q)}} :
                        pr \in {parse_query(query_text)}} : TRUE

(***************************************************************************)
(* recommendation_service.py: the aggregated-observations store            *)
(*                                                                         *)
(* The store holds the tables scenario_observations and                    *)
(* variable_semantics.  Names are compared for equality only and are       *)
(* plain strings here.                                                     *)
(***************************************************************************)
\* get_db_connection(): the connection, or None when psycopg2.connect raises
get_db_connection(db_state) == IF db_state = "down" THEN NoneVal ELSE Some("conn")

\* p_sector = sector if sector and sector != "All Sectors" else None
SectorParam(sector) ==
  IF sector # NoneVal /\ sector # Some("") /\ sector # Some("All Sectors")
  THEN sector ELSE NoneVal

\* p_region = region if region and region != "Global" else None
RegionParam(region) ==
  IF region # NoneVal /\ region # Some("") /\ region # Some("Global")
  THEN region ELSE NoneVal

\* FROM scenario_observations so JOIN variable_semantics vs
\*   ON so.variable = vs.variable
\* WHERE (vs.sector = %s OR %s IS NULL) AND (%s IS NULL OR so.region = %s)
\*   AND so.year BETWEEN %s AND %s
SelectedRows(observations, semantics, p_sector, p_region, start_year, end_year) ==
  {so \in observations :
     /\ \E vs \in semantics :
          /\ so.variable = vs.variable
          /\ (p_sector = Some(vs.sector) \/ p_sector = NoneVal)
     /\ (p_region = NoneVal \/ p_region = Some(so.region))
     /\ start_year <= so.year /\ so.year <= end_year}

MinOf(S) == CHOOSE x \in S : \A y \in S : x <= y

\* SELECT provider, model, COUNT(DISTINCT variable), COUNT(DISTINCT region),
\*        MIN(year), MAX(year) ... GROUP BY provider, model
\* and the dictionaries built from the rows
Aggregate(rows) ==
  {LET g == {r \in rows : r.provider = k[1] /\ r.model = k[2]} IN
     [provider |-> k[1], model |-> k[2],
      variable_coverage_count |-> Cardinality({r.variable : r \in g}),
      region_coverage_count |-> Cardinality({r.region : r \in g}),
      min_year |-> MinOf({r.year : r \in g}),
      max_year |-> MaxOf({r.year : r \in g})] :
   k \in {<<r.provider, r.model>> : r \in rows}}

\* cur.fetchall(): the query has no ORDER BY, the groups come in any order
Orderings(S) ==
  {f \in [1..Cardinality(S) -> S] : \A i, j \in 1..Cardinality(S) : f[i] = f[j] => i = j}

\* compute_coverage_metrics(sector, region, start_year, end_year) against a
\* store in state db_state, the rows fetched in the order `fetched`:
\* the returned list and the number of aggregation requests issued
\* a variant that issues the aggregation query again after it failed
compute_coverage_metrics_Retry(db_state, fetched) ==
  IF get_db_connection(db_state) = NoneVal
  THEN [outcome |-> "returned", results |-> <<>>, requests |-> 0]
  ELSE IF db_state = "query_fails"
  THEN [outcome |-> "returned", results |-> <<>>, requests |-> 2]
  ELSE [outcome |-> "returned", results |-> fetched, requests |-> 1]

compute_coverage_metrics(db_state, fetched) ==
  IF get_db_connection(db_state) = NoneVal
  THEN [outcome |-> "returned", results |-> <<>>, requests |-> 0]
  ELSE IF db_state = "query_fails"
  THEN [outcome |-> "returned", results |-> <<>>, requests |-> 1]
  ELSE [outcome |-> "returned", results |-> fetched, requests |-> 1]

(***************************************************************************)
(* recommendation_service.py: score_candidates                             *)
(***************************************************************************)
MulF(a, b) == Frac(a.n * b.n, a.d * b.d)

MinF(a, b) == IF LeqF(a, b) THEN a ELSE b

\* a conversion that truncates towards minus infinity
Round_Floor(x) == x.n \div x.d

\* round(x): to the nearest integer, an exact tie to the
\* even one.  (The code rounds a binary float; a tie needs a coverage ratio
\* with denominator 4 or more.)
Round(x) ==
  LET f == x.n \div x.d
      twice == 2 * (x.n - f * x.d)
  IN IF twice > x.d \/ (twice = x.d /\ f % 2 = 1) THEN f + 1 ELSE f

RECURSIVE MaxField(_, _)
MaxField(metrics, field) ==
  IF Len(metrics) = 1 THEN metrics[1][field]
  ELSE LET rest == MaxField(Tail(metrics), field) IN
         IF metrics[1][field] >= rest THEN metrics[1][field] ELSE rest

\* a normalisation that divides whatever the maximum is
Divides_Unguarded(divisor) == TRUE

\* `count / max if max > 0 else 0`: the division is executed
Divides(divisor) == divisor > 0

\* a normalisation by the parameter expected_var_count=10 instead of the
\* list maximum
Normalized_ByExpected(count, divisor) ==
  MinF(Frac(count, 10), Frac(1, 1))

\* var_score = m['variable_coverage_count'] / max_vars if max_vars > 0 else 0
Normalized(count, divisor) ==
  IF Divides(divisor) /\ divisor # 0 THEN Frac(count, divisor) ELSE ZeroF

\* a time score without the cap at 1.0
TimeScore_Uncapped(m) == Frac(m.max_year - m.min_year, 30)

\* min(duration / 30.0, 1.0)
TimeScore(m) == MinF(Frac(m.max_year - m.min_year, 30), Frac(1, 1))

\* the body of `for m in metrics`: the score and details stored into m
ScoredMetric(m, max_vars, max_regions) ==
  LET var_score == Normalized(m.variable_coverage_count, max_vars)
      reg_score == Normalized(m.region_coverage_count, max_regions)
      time_score == TimeScore(m)
      bonus == Frac(5, 10)
      total_score == AddF(AddF(MulF(Frac(4, 10), var_score), MulF(Frac(3, 10), reg_score)),
                          AddF(MulF(Frac(2, 10), time_score), MulF(Frac(1, 10), bonus)))
  IN [provider |-> m.provider, model |-> m.model,
      variable_coverage_count |-> m.variable_coverage_count,
      region_coverage_count |-> m.region_coverage_count,
      min_year |-> m.min_year, max_year |-> m.max_year,
      score |-> Round(MulF(total_score, Frac(100, 1))),
      details |-> <<m.variable_coverage_count, " variables, ", m.min_year, "-", m.max_year>>]

\* a sort without reverse=True
RECURSIVE InsertByScore_Ascending(_, _)
InsertByScore_Ascending(sorted, m) ==
  IF sorted = <<>> THEN <<m>>
  ELSE IF sorted[1].score <= m.score
       THEN <<sorted[1]>> \o InsertByScore_Ascending(Tail(sorted), m)
       ELSE <<m>> \o sorted

\* list.sort(key=score, reverse=True): stable, equal scores keep their order
RECURSIVE InsertByScore(_, _)
InsertByScore(sorted, m) ==
  IF sorted = <<>> THEN <<m>>
  ELSE IF sorted[1].score >= m.score THEN <<sorted[1]>> \o InsertByScore(Tail(sorted), m)
       ELSE <<m>> \o sorted

RECURSIVE SortByScore(_, _)
SortByScore(items, acc) ==
  IF items = <<>> THEN acc
  ELSE SortByScore(Tail(items), InsertByScore(acc, items[1]))

\* a division of the loop body executed with divisor 0 raises
\* ZeroDivisionError
RankZeroDivides(metrics) ==
  /\ metrics # <<>>
  /\ \/ Divides(MaxField(metrics, "variable_coverage_count"))
          /\ MaxField(metrics, "variable_coverage_count") = 0
     \/ Divides(MaxField(metrics, "region_coverage_count"))
          /\ MaxField(metrics, "region_coverage_count") = 0

\* the records of `metrics` after the loop: m['score'] and m['details'] are
\* set on the objects of the argument list, in place
ScoredInPlace(metrics) ==
  IF metrics = <<>> THEN <<>>
  ELSE LET max_vars == MaxField(metrics, "variable_coverage_count")
           max_regions == MaxField(metrics, "region_coverage_count")
       IN [i \in 1..Len(metrics) |-> ScoredMetric(metrics[i], max_vars, max_regions)]

\* var_score, reg_score and time_score of each m, in the order of `metrics`
ScoreParts(metrics) ==
  IF metrics = <<>> THEN <<>>
  ELSE LET max_vars == MaxField(metrics, "variable_coverage_count")
           max_regions == MaxField(metrics, "region_coverage_count")
       IN [i \in 1..Len(metrics) |->
             [var_score |-> Normalized(metrics[i].variable_coverage_count, max_vars),
              reg_score |-> Normalized(metrics[i].region_coverage_count, max_regions),
              time_score |-> TimeScore(metrics[i])]]

\* score_candidates(metrics): the returned list `scored`, which holds the
\* objects of `metrics`, sorted
score_candidates(metrics) ==
  IF metrics = <<>> THEN <<>>
  ELSE SortByScore(ScoredInPlace(metrics), <<>>)

(***************************************************************************)
(* recommendation_service.py: get_provider_recommendations                 *)
(***************************************************************************)
DEFAULT_START_YEAR == 2020

DEFAULT_END_YEAR == 2050

TOP_CANDIDATES == 6

\* if not start_year: start_year = 2020
StartYearOrDefault(start_year) ==
  IF TruthyInt(start_year) THEN CHOOSE y \in start_year : TRUE ELSE DEFAULT_START_YEAR

\* if not end_year: end_year = 2050
EndYearOrDefault(end_year) ==
  IF TruthyInt(end_year) THEN CHOOSE y \in end_year : TRUE ELSE DEFAULT_END_YEAR

\* scored_candidates[:6]
Take(seq, n) == SubSeq(seq, 1, IF Len(seq) < n THEN Len(seq) ELSE n)

\* the literal {"top_recommendation": None, "candidates": []}
EmptyRecommendation ==
  [kind |-> "empty", top_recommendation |-> NoneVal, candidates |-> <<>>]

\* enrich_candidates_with_llm: no client, the model's own JSON (its content
\* is the model's), or the fallback built from the candidates
enrich_candidates_with_llm(llm_state, candidates) ==
  IF llm_state = "no_client"
  THEN [kind |-> "error", top_recommendation |-> NoneVal, candidates |-> <<>>]
  ELSE IF llm_state = "answers"
  THEN [kind |-> "llm", top_recommendation |-> NoneVal, candidates |-> candidates]
  ELSE [kind |-> "fallback",
        top_recommendation |-> Some(<<candidates[1].provider, candidates[1].model>>),
        candidates |-> candidates]

\* get_provider_recommendations, given what compute_coverage_metrics returned
get_provider_recommendations(metrics, llm_state) ==
  IF metrics = <<>> THEN EmptyRecommendation
  ELSE enrich_candidates_with_llm(llm_state, Take(score_candidates(metrics), TOP_CANDIDATES))

(***************************************************************************)
(* ETL OWID/scripts/scoring.py: score_dataset                              *)
(*                                                                         *)
(* A dataset document and a query are dicts: a key that is absent (or      *)
(* None) is NoneVal.  The unit map is the sequence of the (key, value)     *)
(* items of the dict in insertion order.  The scores of the match          *)
(* functions and of the license are in tenths.                             *)
(***************************************************************************)
\* compute_time_coverage(ds_start, ds_end, req_start, req_end)
compute_time_coverage(ds_start, ds_end, req_start, req_end) ==
  IF req_end < req_start THEN ZeroF
  ELSE LET total_years == req_end - req_start + 1
           overlap_start == IF ds_start >= req_start THEN ds_start ELSE req_start
           overlap_end == IF ds_end <= req_end THEN ds_end ELSE req_end
       IN IF overlap_end < overlap_start THEN ZeroF
          ELSE Frac(overlap_end - overlap_start + 1, total_years)

\* unit_compatibility(dataset_unit_map, requested_variable): the returned
\* triple, or raised when _normalize_unit gave None and .lower() is called
\* on it
unit_compatibility(dataset_unit_map, requested_variable) ==
  LET UNIT_EQUIVALENCES ==
        <<[key |-> <<"t">>, scale |-> 1], [key |-> <<"t","o","n","n","e">>, scale |-> 1],
          [key |-> <<"t","o","n","n","e","s">>, scale |-> 1], [key |-> <<"t","o","n","n","e","s","/","y","r">>, scale |-> 1],
          [key |-> <<"t","o","n","n","e","s"," ","y","r","-","1">>, scale |-> 1],
          [key |-> <<"M","t","C","O","2","/","y","r">>, scale |-> 1000000],
          [key |-> <<"M","t","C","O","2">>, scale |-> 1000000],
          [key |-> <<"t","o","n","n","e","s"," ","C","O","2","/","y","r">>, scale |-> 1]>>
      Get(k) == {dataset_unit_map[i].value :
                   i \in {j \in DOMAIN dataset_unit_map : dataset_unit_map[j].key = k}}
      found == IF TruthyStr(Get(requested_variable)) THEN Get(requested_variable)
               ELSE Get(Lower(requested_variable))
      ds_unit == IF TruthyStr(found) THEN found ELSE {dataset_unit_map[1].value}
      Strip(u) == LET inner == {i \in DOMAIN u : u[i] \notin WhitespaceChars}
                  IN IF inner = {} THEN <<>> ELSE SubSeq(u, MinOf(inner), MaxOf(inner))
      ds_unit_n == IF TruthyStr(ds_unit) THEN {Strip(u) : u \in ds_unit} ELSE NoneVal
      Hit(i) == \A u \in ds_unit_n : Contains(Lower(u), Lower(UNIT_EQUIVALENCES[i].key))
      hits == {i \in DOMAIN UNIT_EQUIVALENCES : Hit(i)}
      Triple(ok, factor, unit) ==
        [raised |-> FALSE, compatible |-> ok, factor |-> factor, dataset_unit |-> unit]
  IN IF dataset_unit_map = <<>> THEN Triple(FALSE, NoneVal, NoneVal)
     ELSE IF ~TruthyStr(found) /\ Len(dataset_unit_map) # 1
     THEN Triple(FALSE, NoneVal, NoneVal)
     ELSE IF ds_unit_n = NoneVal
     THEN [raised |-> TRUE, compatible |-> FALSE, factor |-> NoneVal,
           dataset_unit |-> NoneVal]
     ELSE IF hits # {}
     THEN Triple(TRUE, Some(UNIT_EQUIVALENCES[MinOf(hits)].scale), ds_unit)
     ELSE Triple(FALSE, NoneVal, ds_unit)

\* region_match_fn(ds_regions, requested_region)
region_match_fn(ds_regions, requested_region) ==
  LET req == Lower(CHOOSE r \in requested_region : TRUE)
      ds_lower == [i \in DOMAIN ds_regions |-> Lower(ds_regions[i])]
  IN IF ~TruthyStr(requested_region)
     THEN [score |-> 10, reason |-> "No region requested"]
     ELSE IF ds_regions = <<>>
     THEN [score |-> 9, reason |-> "Dataset contains granular country rows (assumed)"]
     ELSE IF \E i \in DOMAIN ds_lower : ds_lower[i] = req
     THEN [score |-> 10, reason |-> "Exact region match"]
     ELSE IF \E i \in DOMAIN ds_lower : ds_lower[i] = <<"w","o","r","l","d">>
     THEN [score |-> 8, reason |-> "Dataset covers World (aggregatable)"]
     ELSE IF \E i \in DOMAIN ds_lower :
               Contains(ds_lower[i], req) \/ Contains(req, ds_lower[i])
     THEN [score |-> 9, reason |-> "Partial region match"]
     ELSE [score |-> 0, reason |-> "No region match"]

\* sector_match_fn(ds_sectors, requested_sector)
sector_match_fn(ds_sectors, requested_sector) ==
  LET req == Lower(CHOOSE r \in requested_sector : TRUE)
      ds_lower == [i \in DOMAIN ds_sectors |-> Lower(ds_sectors[i])]
  IN IF ~TruthyStr(requested_sector)
     THEN [score |-> 10, reason |-> "No sector requested"]
     ELSE IF ds_sectors = <<>>
     THEN [score |-> 10, reason |-> "Dataset not sectored (assumed covers all)"]
     ELSE IF \E i \in DOMAIN ds_lower : ds_lower[i] = req
     THEN [score |-> 10, reason |-> "Has sector"]
     ELSE IF \E i \in DOMAIN ds_lower : ds_lower[i] = <<"a","l","l">>
     THEN [score |-> 10, reason |-> "Dataset lists 'all' sectors"]
     ELSE IF \E i \in DOMAIN ds_lower :
               Contains(ds_lower[i], req) \/ Contains(req, ds_lower[i])
     THEN [score |-> 9, reason |-> "Partial sector match"]
     ELSE [score |-> 0, reason |-> "No sector match"]

\* license_score_from_string(license_str)
license_score_from_string(license_str) ==
  LET LICENSE_SCORES ==
        <<[key |-> <<"o","p","e","n">>, score |-> 10], [key |-> <<"c","c","-","b","y">>, score |-> 10],
          [key |-> <<"c","c","-","b","y","-","4",".","0">>, score |-> 10], [key |-> <<"f","r","e","e">>, score |-> 10],
          [key |-> <<"r","e","g","i","s","t","r","a","t","i","o","n">>, score |-> 5], [key |-> <<"r","e","s","t","r","i","c","t","e","d">>, score |-> 0],
          [key |-> <<"c","l","o","s","e","d">>, score |-> 0]>>
      s == Lower(CHOOSE l \in license_str : TRUE)
      hits == {i \in DOMAIN LICENSE_SCORES : Contains(s, LICENSE_SCORES[i].key)}
  IN IF ~TruthyStr(license_str) THEN 0
     ELSE IF hits # {} THEN LICENSE_SCORES[MinOf(hits)].score
     ELSE IF \/ Contains(s, <<"c","c">>) \/ Contains(s, <<"c","r","e","a","t","i","v","e"," ","c","o","m","m","o","n","s">>)
             \/ Contains(s, <<"p","u","b","l","i","c"," ","d","o","m","a","i","n">>) \/ Contains(s, <<"o","p","e","n">>)
     THEN 10
     ELSE IF Contains(s, <<"r","e","g","i","s","t","r","a","t","i","o","n">>) \/ Contains(s, <<"l","o","g","i","n">>) THEN 5
     ELSE 0

\* score_dataset(dataset_doc, query): the returned dict, or raised.
\* breakdown holds the match scores in tenths and time_coverage in
\* ten-thousandths; score is in ten-thousandths (round(total_score, 4)) and
\* coverage_pct in hundredths of a percent (round(time_cov * 100, 2))
score_dataset(dataset_doc, query) ==
  LET OrElse(o, d) == IF o = NoneVal THEN d ELSE CHOOSE x \in o : TRUE
      variable == OrElse(query.variable, <<>>)
      ds_vars == OrElse(dataset_doc.variables, <<>>)
      ds_start == OrElse(dataset_doc.start_year, -9999)
      ds_end == OrElse(dataset_doc.end_year, 9999)
      sector == sector_match_fn(OrElse(dataset_doc.sectors, <<>>), query.sector)
      region == region_match_fn(OrElse(dataset_doc.regions, <<>>), query.region)
      time_cov ==
        IF query.start # NoneVal /\ query.end # NoneVal
        THEN compute_time_coverage(ds_start, ds_end, OrElse(query.start, 0),
                                   OrElse(query.end, 0))
        ELSE IF ds_start <= ds_end THEN Frac(1, 1) ELSE ZeroF
      requested == variable # <<>>
      in_dataset == \E i \in DOMAIN ds_vars : Lower(ds_vars[i]) = Lower(variable)
      unit == IF requested /\ in_dataset
              THEN unit_compatibility(OrElse(dataset_doc.unit, <<>>), variable)
              ELSE [raised |-> FALSE, compatible |-> FALSE, factor |-> NoneVal,
                    dataset_unit |-> NoneVal]
      var_present == ~requested \/ in_dataset
      var_reason == IF ~requested THEN "No variable requested"
                    ELSE IF in_dataset THEN "Variable present"
                    ELSE "Variable not present"
      lic_score == license_score_from_string(dataset_doc.license)
      breakdown == [sector_match |-> sector.score,
                    region_match |-> region.score,
                    time_coverage |-> Round(MulF(time_cov, Frac(10000, 1))),
                    variable_coverage |-> IF var_present THEN 10 ELSE 0,
                    license_score |-> lic_score]
      total_score ==
        AddF(AddF(AddF(Frac(breakdown.sector_match * 40, 1000),
                       Frac(breakdown.region_match * 25, 1000)),
                  AddF(Frac(breakdown.time_coverage * 15, 1000000),
                       Frac(breakdown.variable_coverage * 10, 1000))),
             Frac(breakdown.license_score * 10, 1000))
      reasons == <<sector.reason, region.reason, var_reason,
                   [time_pct |-> Round_Floor(MulF(time_cov, Frac(100, 1)))],
                   [license |-> dataset_doc.license, score |-> lic_score]>>
  IN IF unit.raised THEN [outcome |-> "raised", result |-> NoneVal]
     ELSE [outcome |-> "returned",
           result |-> Some([id |-> dataset_doc.id,
                            name |-> NoneVal,
                            score |-> Round(MulF(total_score, Frac(10000, 1))),
                            breakdown |-> breakdown,
                            reasons |-> reasons,
                            coverage_pct |-> Round(MulF(time_cov, Frac(10000, 1))),
                            unit_compatibility |->
                              [compatible |-> unit.compatible, factor |-> unit.factor,
                               dataset_unit |-> unit.dataset_unit]])]

(***************************************************************************)
(* app.py: the guided chat flow (/api/chat, /api/reset)                    *)
(*                                                                         *)
(* session_states["default_session"] is a record of step, data and         *)
(* completed; data maps region, start_date, end_date to NoneVal while the  *)
(* key is absent.                                                          *)
(***************************************************************************)
\* the state reset_session() stores
reset_session ==
  [step |-> "region",
   data |-> [region |-> NoneVal, start_date |-> NoneVal, end_date |-> NoneVal],
   completed |-> FALSE]

\* parse_intent_with_groq(state, message): the deterministic overrides, and
\* otherwise what the model answered (llm_answer; NoneVal when the request
\* or the JSON parsing failed).  A key the dict lacks is NoneVal.  The
\* pattern (?:change|set)\s+(region|start\s*date|end\s*date)\s+to\s+(.+)
\* is matched with single blanks.
parse_intent_with_groq(message, llm_answer) ==
  LET lower_msg == Lower(message)
      StripSet(u, cs) == LET inner == {i \in DOMAIN u : u[i] \notin cs}
                         IN IF inner = {} THEN <<>>
                            ELSE SubSeq(u, MinOf(inner), MaxOf(inner))
      clean_msg == StripSet(lower_msg, {" ", ".", ",", "!"})
      Patterns ==
        {[text |-> kw \o <<" ">> \o f.text \o <<" ","t","o"," ">>, field |-> f.field] :
           kw \in {<<"c","h","a","n","g","e">>, <<"s","e","t">>},
           f \in {[text |-> <<"r","e","g","i","o","n">>, field |-> "region"],
                  [text |-> <<"s","t","a","r","t"," ","d","a","t","e">>, field |-> "start_date"],
                  [text |-> <<"s","t","a","r","t","d","a","t","e">>, field |-> "start_date"],
                  [text |-> <<"e","n","d"," ","d","a","t","e">>, field |-> "end_date"],
                  [text |-> <<"e","n","d","d","a","t","e">>, field |-> "end_date"]}}
      Matches == {m \in [at : DOMAIN lower_msg, pat : Patterns] :
                    /\ OccursAt(m.pat.text, lower_msg, m.at)
                    /\ m.at + Len(m.pat.text) <= Len(lower_msg)}
      match == CHOOSE m \in Matches : \A o \in Matches : m.at <= o.at
      value == StripSet(SubSeq(lower_msg, match.at + Len(match.pat.text),
                               Len(lower_msg)), WhitespaceChars)
  IN IF clean_msg \in {<<"c","o","n","f","i","r","m">>, <<"y","e","s">>, <<"d","o","n","e">>, <<"f","i","n","i","s","h">>, <<"p","r","o","c","e","e","d">>,
                       <<"l","o","o","k","s"," ","g","o","o","d">>, <<"o","k">>}
     THEN [intent |-> Some("CONFIRM"), field |-> NoneVal, value |-> NoneVal]
     ELSE IF (Contains(lower_msg, <<"c","h","a","n","g","e">>) \/ Contains(lower_msg, <<"s","e","t">>))
             /\ Matches # {}
     THEN [intent |-> Some("MODIFY"), field |-> Some(match.pat.field),
           value |-> Some(IF match.pat.field = "region" THEN Capitalize(value)
                          ELSE Upper(value))]
     ELSE IF llm_answer = NoneVal
     THEN [intent |-> Some("NEXT"), field |-> NoneVal, value |-> Some(message)]
     ELSE CHOOSE a \in llm_answer : TRUE

\* chat(): the session state after a non-empty message, given what
\* parse_intent_with_groq returned
chat(state, user_message, parsed) ==
  LET intent == IF parsed.intent = NoneVal THEN "NEXT"
                ELSE CHOOSE i \in parsed.intent : TRUE
      value == IF parsed.value = NoneVal THEN user_message
               ELSE CHOOSE v \in parsed.value : TRUE
      Modifies == intent = "MODIFY"
                  /\ parsed.field \cap {"region", "start_date", "end_date"} # {}
      modified == IF Modifies
                  THEN [state.data EXCEPT ![CHOOSE f \in parsed.field : TRUE] = Some(value)]
                  ELSE state.data
      \* re.match(r'^\d{4}(?:-\d{2}-\d{2})?$', value)
      IsDate == \/ Len(value) = 4 /\ \A i \in 1..4 : IsDigit(value[i])
                \/ /\ Len(value) = 10
                   /\ \A i \in {1, 2, 3, 4, 6, 7, 9, 10} : IsDigit(value[i])
                   /\ value[5] = "-" /\ value[8] = "-"
      stepped ==
        IF state.step = "region" /\ intent = "NEXT"
        THEN [step |-> "start_date", data |-> [modified EXCEPT !.region = Some(value)]]
        ELSE IF state.step = "start_date" /\ intent = "NEXT" /\ IsDate
        THEN [step |-> "end_date", data |-> [modified EXCEPT !.start_date = Some(value)]]
        ELSE IF state.step = "end_date" /\ intent = "NEXT" /\ IsDate
        THEN [step |-> "review", data |-> [modified EXCEPT !.end_date = Some(value)]]
        ELSE IF state.step = "end_date" /\ intent = "MODIFY"
        THEN [step |-> "review", data |-> modified]
        ELSE [step |-> state.step, data |-> modified]
  IN IF state.completed THEN state
     ELSE IF intent = "RESET" THEN reset_session
     ELSE [step |-> stepped.step, data |-> stepped.data,
           completed |-> stepped.step = "review" /\ intent = "CONFIRM"]

(***************************************************************************)
(* State                                                                   *)
(***************************************************************************)
VARIABLES
  text,        \* parse_query: the argument
  pq_pc,       \* parse_query: "call", "returned" or "raised"
  parsed,      \* parse_query: the returned Query
  provider,    \* score_provider: the argument provider
  query,       \* score_provider: the argument q
  sp_pc,       \* score_provider: "call", "returned" or "raised"
  sp_result,   \* score_provider: score, explanation and the amounts added
  store,       \* the rows of scenario_observations
  db_state,    \* the store: "up", "down" (no connection) or "query_fails"
  llm_state,   \* the LLM client: "no_client", "answers" or "fails"
  cov_args,    \* sector, region, start_year, end_year of the request
  cov_pc,      \* "call", "metrics_done" or "recommend_done"
  cov_result,  \* what the coverage operation returned or raised
  requests,    \* aggregation requests issued to the store by the operation
  sim_a,       \* semantic_match / var_match: the query-side string
  sim_b,       \* semantic_match / var_match: the provider-side string
  sim_pvars,   \* provider["variables"] for the inner loop of score_provider
  sim_pc,      \* "call" or "returned"
  sim_result,  \* the grades returned for (sim_a, sim_b) and the loop's best
  mp_text,     \* match_providers: the argument query_text
  catalog,     \* match_providers: what load_provider_catalog() returns
  mp_pc,       \* match_providers: "call", "returned" or "raised"
  mp_result,   \* match_providers: the returned dict and each provider's score
  metrics,     \* score_candidates: the argument list (the caller's objects)
  metrics_before, \* the argument list as it was when the call was made
  rank_pc,     \* score_candidates: "call", "returned" or "raised"
  scored,      \* score_candidates: the returned list
  parts,       \* score_candidates: var_score, reg_score, time_score of each m
  ds_doc,      \* score_dataset: the argument dataset_doc
  ds_query,    \* score_dataset: the argument query
  ds_pc,       \* score_dataset: "call", "returned" or "raised"
  ds_result,   \* score_dataset: the returned dict, if any
  session_states, \* app.py: session_states["default_session"], if present
  last_request \* app.py: the last request served, "chat" or "reset"

vars == <<text, pq_pc, parsed, provider, query, sp_pc, sp_result,
          store, db_state, llm_state, cov_args, cov_pc, cov_result, requests,
          sim_a, sim_b, sim_pvars, sim_pc, sim_result,
          mp_text, catalog, mp_pc, mp_result,
          metrics, metrics_before, rank_pc, scored, parts,
          ds_doc, ds_query, ds_pc, ds_result, session_states, last_request>>

coverageVars == <<store, db_state, llm_state, cov_args, cov_pc, cov_result, requests>>

parseVars == <<text, pq_pc, parsed>>

scoreVars == <<provider, query, sp_pc, sp_result>>

simVars == <<sim_a, sim_b, sim_pvars, sim_pc, sim_result>>

matchVars == <<mp_text, catalog, mp_pc, mp_result>>

rankVars == <<metrics, metrics_before, rank_pc, scored, parts>>

datasetVars == <<ds_doc, ds_query, ds_pc, ds_result>>

chatVars == <<session_states, last_request>>

NoResult ==
  [score |-> ZeroF, explanation |-> NoneVal, contrib |-> NoContribution]

NoRecommendation ==
  [kind |-> "none", top_recommendation |-> NoneVal, candidates |-> <<>>]

NoCoverageResult ==
  [outcome |-> "none", metrics |-> <<>>, recommendation |-> NoRecommendation]

NoSimResult == [semantic |-> 0, var |-> 0, best |-> 0]

NoMatchResult == [parsedQuery |-> EmptyQuery, providers |-> <<>>, scores |-> <<>>]

\* the variables of the operations that are not in `active` stay at the
\* values they have while those operations are not called
IdleExcept(active) ==
  /\ "parse" \in active \/
     (/\ text = <<>>
      /\ pq_pc = "idle"
      /\ parsed = EmptyQuery)
  /\ "score" \in active \/
     (/\ provider = [id |-> "none", variables |-> <<>>, scenarios |-> <<>>,
                      regions |-> <<>>, granularity |-> NoneVal,
                      years |-> [min |-> 0, max |-> 0]]
      /\ query = EmptyQuery
      /\ sp_pc = "idle"
      /\ sp_result = NoResult)
  /\ "coverage" \in active \/
     (/\ store = {}
      /\ db_state = "up"
      /\ llm_state = "no_client"
      /\ cov_args = [sector |-> NoneVal, region |-> NoneVal,
                      start_year |-> NoneVal, end_year |-> NoneVal]
      /\ cov_pc = "idle"
      /\ cov_result = NoCoverageResult
      /\ requests = 0)
  /\ "sim" \in active \/
     (/\ sim_a = <<>>
      /\ sim_b = <<>>
      /\ sim_pvars = <<>>
      /\ sim_pc = "idle"
      /\ sim_result = NoSimResult)
  /\ "match" \in active \/
     (/\ mp_text = <<>>
      /\ catalog = <<>>
      /\ mp_pc = "idle"
      /\ mp_result = NoMatchResult)
  /\ "rank" \in active \/
     (/\ metrics = <<>>
      /\ metrics_before = <<>>
      /\ rank_pc = "idle"
      /\ scored = <<>>
      /\ parts = <<>>)
  /\ "dataset" \in active \/
     (/\ ds_doc =
          [id |-> NoneVal, variables |-> NoneVal, sectors |-> NoneVal, regions |-> NoneVal,
           start_year |-> NoneVal, end_year |-> NoneVal, unit |-> NoneVal, license |-> NoneVal]
      /\ ds_query = [variable |-> NoneVal, sector |-> NoneVal, region |-> NoneVal,
                     start |-> NoneVal, end |-> NoneVal]
      /\ ds_pc = "idle"
      /\ ds_result = NoneVal)
  /\ "chat" \in active \/
     (/\ session_states = NoneVal
      /\ last_request = "none")

(***************************************************************************)
(* Inputs of parse_query: texts of up to MaxTokens words over a pool that  *)
(* has a word for every rule, for the overlaps of two rules and for none,  *)
(* and the example text of the specification                               *)
(***************************************************************************)
Q_gdp_ppp == <<"g","d","p","|","p","p","p">>

Q_SSP2 == <<"S","S","P","2">>

Q_India == <<"I","n","d","i","a">>

T_scen_pipe == <<"s","s","p","1","|","x">>

T_y2020 == <<"2","0","2","0">>

T_y2050 == <<"2","0","5","0">>

T_decade == <<"2","0","2","0","s">>

T_bare == <<"g","d","p">>

TokenPool ==
  {Q_SSP2, T_scen_pipe, Q_gdp_ppp, <<"2","0","2","0","|","x">>, Q_India, <<"5","-","y","e","a","r">>,
   T_y2020, T_y2050, <<"0","0","0","0">>, T_decade, T_bare, <<"h","e","l","l","o">>, S_annual}

SeqsUpTo(S, n) == UNION {[1..k -> S] : k \in 0..n}

\* " ".join(words)
RECURSIVE Join(_)
Join(words) ==
  IF words = <<>> THEN <<>>
  ELSE IF Len(words) = 1 THEN words[1]
       ELSE words[1] \o <<" ">> \o Join(Tail(words))

ExampleText == <<"s","s","p","2"," ","g","d","p","|","p","p","p"," ","i","n","d","i","a"," ","2","0","2","0"," ","2","0","5","0"," ","a","n","n","u","a","l">>

Texts == {Join(w) : w \in SeqsUpTo(TokenPool, MaxTokens)} \cup {ExampleText}

(***************************************************************************)
(* Specification of parse_query                                            *)
(***************************************************************************)
InitParse ==
  /\ text \in Texts
  /\ pq_pc = "call"
  /\ parsed = EmptyQuery
  /\ IdleExcept({"parse"})

\* a call of parse_query(text): returns the Query or raises ValueError
ParseQuery ==
  /\ pq_pc = "call"
  /\ LET r == parse_query(text) IN
       /\ pq_pc' = IF r.raised THEN "raised" ELSE "returned"
       /\ parsed' = r.q
  /\ UNCHANGED text
  /\ UNCHANGED scoreVars
  /\ UNCHANGED coverageVars
  /\ UNCHANGED <<simVars, matchVars, rankVars>>
  /\ UNCHANGED <<datasetVars, chatVars>>

SpecParse == InitParse /\ [][ParseQuery]_vars

(***************************************************************************)
(* Inputs of score_provider: queries as parse_query builds them (regions   *)
(* capitalized, scenarios upper-cased, variables lower-cased, years from   *)
(* digit tokens) and catalog providers over small pools of names           *)
(***************************************************************************)
MaxQVars == 2

MaxQScen == 2

MaxQReg == 1

Q_SSP1 == <<"S","S","P","1">>

P_GDP == <<"G","D","P">>

P_GDP_PPP == <<"G","D","P","|","P","P","P">>

P_SSP2 == <<"S","S","P","2">>

P_SSP2_45 == <<"S","S","P","2","-","4","5">>

P_india == <<"i","n","d","i","a">>

P_Asia == <<"A","s","i","a">>

\* the query lists in full, with three settings of granularity and years
ListQueries ==
  {[variables |-> v, regions |-> r, scenarios |-> sc, granularity |-> gy.g,
    start_year |-> gy.s, end_year |-> gy.e] :
     v \in SeqsUpTo({Q_gdp_ppp, <<"c","o","2">>}, MaxQVars),
     r \in SeqsUpTo({Q_India}, MaxQReg),
     sc \in SeqsUpTo({Q_SSP2, Q_SSP1}, MaxQScen),
     gy \in {[g |-> NoneVal, s |-> NoneVal, e |-> NoneVal],
             [g |-> Some(S_annual), s |-> Some(2020), e |-> Some(2050)],
             [g |-> Some(S_decadal), s |-> Some(1990), e |-> Some(2050)]}}

\* granularity and years in full, with lists of at most one name
ScalarQueries ==
  {[variables |-> v, regions |-> r, scenarios |-> sc, granularity |-> g,
    start_year |-> y.s, end_year |-> y.e] :
     v \in {<<>>, <<Q_gdp_ppp>>}, r \in {<<>>, <<Q_India>>},
     sc \in {<<>>, <<Q_SSP2>>},
     g \in {NoneVal, Some(S_annual), Some(S_decadal)},
     y \in {[s |-> NoneVal, e |-> NoneVal], [s |-> Some(2020), e |-> NoneVal],
            [s |-> Some(2020), e |-> Some(2050)], [s |-> Some(1990), e |-> Some(2050)],
            [s |-> Some(2020), e |-> Some(2150)], [s |-> Some(2020), e |-> Some(0)]}}

Queries == ListQueries \cup ScalarQueries

\* the catalog builder writes each list as sorted(set(...)): the lists of a
\* provider are the duplicate-free sub-sequences of a sorted pool
SortedSubLists(pool) ==
  {LET Member(x) == x \in S IN SelectSeq(pool, Member) :
     S \in SUBSET {pool[i] : i \in 1..Len(pool)}}

Providers ==
  {[id |-> "p", variables |-> v, scenarios |-> sc, regions |-> r,
    granularity |-> g, years |-> y] :
     v \in SortedSubLists(<<P_GDP, P_GDP_PPP>>),
     sc \in SortedSubLists(<<P_SSP2, P_SSP2_45>>),
     r \in SortedSubLists(<<P_Asia, P_india>>),
     \* a provider without the granularity key has granularity NoneVal
     g \in {Some(S_annual), NoneVal}, y \in {[min |-> 2000, max |-> 2100]}}

(***************************************************************************)
(* Specification of score_provider                                         *)
(***************************************************************************)
InitScore ==
  /\ provider \in Providers
  /\ query \in Queries
  /\ sp_pc = "call"
  /\ sp_result = NoResult
  /\ IdleExcept({"score"})

\* a call of score_provider(provider, query)
ScoreProvider ==
  /\ sp_pc = "call"
  /\ LET r == score_provider(provider, query) IN
       /\ sp_pc' = r.outcome
       /\ sp_result' = [score |-> r.score, explanation |-> r.explanation,
                        contrib |-> r.contrib]
  /\ UNCHANGED <<provider, query>>
  /\ UNCHANGED parseVars
  /\ UNCHANGED coverageVars
  /\ UNCHANGED <<simVars, matchVars, rankVars>>
  /\ UNCHANGED <<datasetVars, chatVars>>

SpecScore == InitScore /\ [][ScoreProvider]_vars

(***************************************************************************)
(* Inputs of the coverage operations: the tables of the store, the state   *)
(* of the store and of the LLM client, and the request                     *)
(***************************************************************************)
MaxRows == 3

Observation(p, m, v, r, y) ==
  [provider |-> p, model |-> m, variable |-> v, region |-> r, year |-> y]

Stores ==
  {T \in SUBSET {Observation("IIASA", "MESSAGE", "Emissions|CO2", "India", 2020),
                 Observation("IIASA", "MESSAGE", "Emissions|CO2", "World", 2050),
                 Observation("IIASA", "MESSAGE", "Crop Yield", "India", 2030),
                 Observation("IIASA", "GCAM", "Crop Yield", "India", 2010),
                 Observation("OWID", "OWID", "Unclassified", "India", 2030),
                 Observation("OWID", "OWID", "Emissions|CO2", "World", 2060)} :
     Cardinality(T) <= MaxRows}

variable_semantics ==
  {[variable |-> "Emissions|CO2", sector |-> "Energy"],
   [variable |-> "Crop Yield", sector |-> "Agriculture"]}

CoverageArgs ==
  [sector : {NoneVal, Some("All Sectors"), Some("Energy")},
   region : {NoneVal, Some("Global"), Some("India")},
   start_year : {NoneVal, Some(2000), Some(2020)},
   end_year : {NoneVal, Some(2050), Some(2100)}]

(***************************************************************************)
(* Specification of the coverage operations                                *)
(***************************************************************************)
InitCoverage ==
  /\ store \in Stores
  /\ db_state \in {"up", "down", "query_fails"}
  /\ llm_state \in {"no_client", "answers", "fails"}
  /\ cov_args \in CoverageArgs
  /\ cov_pc = "call"
  /\ cov_result = NoCoverageResult
  /\ requests = 0
  /\ IdleExcept({"coverage"})

\* the groups the aggregation query yields for the request
Groups(sector, region, start_year, end_year) ==
  Aggregate(SelectedRows(store, variable_semantics, SectorParam(sector),
                         RegionParam(region), start_year, end_year))

\* a call of compute_coverage_metrics(sector, region, start_year, end_year)
ComputeCoverageMetrics ==
  /\ cov_pc = "call"
  /\ cov_args.start_year # NoneVal /\ cov_args.end_year # NoneVal
  /\ \E sy \in cov_args.start_year, ey \in cov_args.end_year :
       \E fetched \in Orderings(Groups(cov_args.sector, cov_args.region, sy, ey)) :
         LET r == compute_coverage_metrics(db_state, fetched) IN
           /\ cov_result' = [outcome |-> r.outcome, metrics |-> r.results,
                             recommendation |-> NoRecommendation]
           /\ requests' = requests + r.requests
  /\ cov_pc' = "metrics_done"
  /\ UNCHANGED <<store, db_state, llm_state, cov_args>>
  /\ UNCHANGED <<parseVars, scoreVars>>
  /\ UNCHANGED <<simVars, matchVars, rankVars>>
  /\ UNCHANGED <<datasetVars, chatVars>>

\* a call of get_provider_recommendations(sector, region, start_year,
\* end_year, variables)
GetProviderRecommendations ==
  /\ cov_pc = "call"
  /\ \E fetched \in Orderings(Groups(cov_args.sector, cov_args.region,
                                     StartYearOrDefault(cov_args.start_year),
                                     EndYearOrDefault(cov_args.end_year))) :
       LET r == compute_coverage_metrics(db_state, fetched) IN
         /\ cov_result' = [outcome |-> r.outcome, metrics |-> r.results,
                           recommendation |->
                             get_provider_recommendations(r.results, llm_state)]
         /\ requests' = requests + r.requests
  /\ cov_pc' = "recommend_done"
  /\ UNCHANGED <<store, db_state, llm_state, cov_args>>
  /\ UNCHANGED <<parseVars, scoreVars>>
  /\ UNCHANGED <<simVars, matchVars, rankVars>>
  /\ UNCHANGED <<datasetVars, chatVars>>

SpecCoverage ==
  InitCoverage /\ [][ComputeCoverageMetrics \/ GetProviderRecommendations]_vars

(***************************************************************************)
(* Inputs of the helper matchers: every string of up to MaxStrLen          *)
(* characters over a small alphabet on each side (the two alphabets share  *)
(* "b" and "|" and hold the two cases of "a"), and the names of the        *)
(* documented examples.  The provider's variable list holds the            *)
(* provider-side string alone, or before or after one other name.          *)
(***************************************************************************)
MaxStrLen == 3

P_World == <<"W","o","r","l","d">>

QueryStrings == SeqsUpTo({"a", "b", "|"}, MaxStrLen) \cup {Q_India, <<"W","O","R","L","D">>, Q_gdp_ppp}

ProviderStrings == SeqsUpTo({"A", "b", "|"}, MaxStrLen) \cup {P_World, P_india, P_GDP}

OtherVariables == {<<"A">>, <<"b", "|", "A">>, P_GDP_PPP}

VariableLists(b) ==
  {<<b>>} \cup {<<b, c>> : c \in OtherVariables} \cup {<<c, b>> : c \in OtherVariables}

(***************************************************************************)
(* Specification of the helper matchers                                    *)
(***************************************************************************)
InitSim ==
  /\ sim_a \in QueryStrings
  /\ sim_b \in ProviderStrings
  /\ sim_pvars \in VariableLists(sim_b)
  /\ sim_pc = "call"
  /\ sim_result = NoSimResult
  /\ IdleExcept({"sim"})

\* semantic_match(sim_a, sim_b), var_match(sim_a, sim_b) and the inner loop
\* of score_provider for the token sim_a over sim_pvars
Match ==
  /\ sim_pc = "call"
  /\ sim_result' = [semantic |-> semantic_match(sim_a, sim_b),
                    var |-> var_match(sim_a, sim_b),
                    best |-> BestVar(sim_a, sim_pvars, 1, 0, NoneVal).best]
  /\ sim_pc' = "returned"
  /\ UNCHANGED <<sim_a, sim_b, sim_pvars>>
  /\ UNCHANGED <<parseVars, scoreVars, coverageVars, matchVars, rankVars>>
  /\ UNCHANGED <<datasetVars, chatVars>>

SpecSim == InitSim /\ [][Match]_vars

(***************************************************************************)
(* Inputs of match_providers: texts of up to MaxMatchTokens words, and     *)
(* catalogs of up to MaxCatalog providers with distinct ids.  Providers    *)
(* "a" and "b" have the same content, "w" covers the world only, "g" has   *)
(* no granularity key and "n" no latest_file key.                          *)
(***************************************************************************)
MaxMatchTokens == 2

MaxCatalog == 2

MatchTexts ==
  {Join(w) : w \in SeqsUpTo({Q_India, T_bare, Q_gdp_ppp, Q_SSP2, S_annual,
                             T_y2020, T_y2050, T_decade}, MaxMatchTokens)}

CatalogProvider(id, v, sc, r, g, f) ==
  [id |-> id, variables |-> v, scenarios |-> sc, regions |-> r, granularity |-> g,
   years |-> [min |-> 2000, max |-> 2100], latest_file |-> f, models |-> NoneVal]

CatalogPool ==
  {CatalogProvider("a", <<P_GDP, P_GDP_PPP>>, <<P_SSP2>>, <<P_india>>,
                   Some(S_annual), Some("a.csv")),
   CatalogProvider("b", <<P_GDP, P_GDP_PPP>>, <<P_SSP2>>, <<P_india>>,
                   Some(S_annual), Some("a.csv")),
   CatalogProvider("w", <<P_GDP>>, <<P_SSP2, P_SSP2_45>>, <<P_World>>,
                   Some(S_decadal), Some("w.csv")),
   CatalogProvider("g", <<P_GDP_PPP>>, <<>>, <<P_Asia, P_india>>,
                   NoneVal, Some("g.csv")),
   CatalogProvider("n", <<P_GDP>>, <<P_SSP2>>, <<P_india>>,
                   Some(S_annual), NoneVal)}

Catalogs ==
  {c \in SeqsUpTo(CatalogPool, MaxCatalog) :
     \A i, j \in 1..Len(c) : c[i].id = c[j].id => i = j}

(***************************************************************************)
(* Specification of match_providers                                        *)
(***************************************************************************)
InitMatch ==
  /\ mp_text \in MatchTexts
  /\ catalog \in Catalogs
  /\ mp_pc = "call"
  /\ mp_result = NoMatchResult
  /\ IdleExcept({"match"})

\* a call of match_providers(mp_text)
MatchProviders ==
  /\ mp_pc = "call"
  /\ \E r \in {match_providers(mp_text, catalog)} :
       /\ mp_pc' = r.outcome
       /\ mp_result' = [parsedQuery |-> r.parsedQuery, providers |-> r.providers,
                        scores |-> r.scores]
  /\ UNCHANGED <<mp_text, catalog>>
  /\ UNCHANGED <<parseVars, scoreVars, coverageVars, simVars, rankVars>>
  /\ UNCHANGED <<datasetVars, chatVars>>

SpecMatch == InitMatch /\ [][MatchProviders]_vars

(***************************************************************************)
(* Inputs of score_candidates: lists of up to MaxMetrics records, one per  *)
(* provider, with counts from 0 and four pairs of years (equal years, one  *)
(* year apart, more than thirty years apart, and min_year after max_year). *)
(***************************************************************************)
MaxMetrics == 2

MaxVarCount == 2

MaxRegCount == 1

CoverageMetric(p, vc, rc, y) ==
  [provider |-> p, model |-> "m", variable_coverage_count |-> vc,
   region_coverage_count |-> rc, min_year |-> y.min, max_year |-> y.max]

\* the lists of n records, the i-th of provider "p<i>"
MetricLists(n) ==
  {[i \in 1..n |-> CoverageMetric(<<"p1", "p2", "p3", "p4">>[i], f[i].vc, f[i].rc, f[i].y)] :
     f \in [1..n -> [vc : 0..MaxVarCount, rc : 0..MaxRegCount,
                     y : {[min |-> 2020, max |-> 2020], [min |-> 2020, max |-> 2021],
                          [min |-> 2000, max |-> 2050], [min |-> 2050, max |-> 2020]}]]}

(***************************************************************************)
(* Specification of score_candidates                                       *)
(***************************************************************************)
InitRank ==
  /\ \E n \in 0..MaxMetrics : metrics \in MetricLists(n)
  /\ metrics_before = metrics
  /\ rank_pc = "call"
  /\ scored = <<>>
  /\ parts = <<>>
  /\ IdleExcept({"rank"})

\* a call of score_candidates(metrics)
ScoreCandidates ==
  /\ rank_pc = "call"
  /\ IF RankZeroDivides(metrics)
     THEN /\ rank_pc' = "raised"
          /\ UNCHANGED <<metrics, scored, parts>>
     ELSE /\ rank_pc' = "returned"
          /\ metrics' = ScoredInPlace(metrics)
          /\ scored' = score_candidates(metrics)
          /\ parts' = ScoreParts(metrics)
  /\ UNCHANGED metrics_before
  /\ UNCHANGED <<parseVars, scoreVars, coverageVars, simVars, matchVars>>
  /\ UNCHANGED <<datasetVars, chatVars>>

SpecRank == InitRank /\ [][ScoreCandidates]_vars

(***************************************************************************)
(* Inputs and specification of score_dataset: documents with and without   *)
(* each optional key, a unit map with an empty unit, and queries with       *)
(* every combination of requested and unrequested fields                   *)
(***************************************************************************)
InitDataset ==
  /\ ds_doc \in
       {[id |-> Some("d"), variables |-> v, sectors |-> sc, regions |-> r,
         start_year |-> y.s, end_year |-> y.e, unit |-> u, license |-> l] :
          v \in {NoneVal, Some(<<<<"c","o","2">>>>), Some(<<<<"C","O","2">>, <<"c","h","4">>>>)},
          sc \in {NoneVal, Some(<<<<"E","n","e","r","g","y">>>>)},
          r \in {NoneVal, Some(<<<<"W","o","r","l","d">>>>), Some(<<<<"E","u","r","o","p","e">>, <<"G","e","r","m","a","n","y">>>>)},
          y \in {[s |-> NoneVal, e |-> NoneVal], [s |-> Some(1990), e |-> Some(2020)],
                 [s |-> Some(2020), e |-> Some(1990)]},
          u \in {NoneVal,
                 Some(<<[key |-> <<"c","o","2">>, value |-> <<"t","o","n","n","e","s","/","y","r">>]>>),
                 Some(<<[key |-> <<"c","o","2">>, value |-> <<>>]>>),
                 Some(<<[key |-> <<"C","O","2">>, value |-> <<"G","W">>], [key |-> <<"c","h","4">>, value |-> <<"M","t">>]>>)},
          l \in {NoneVal, Some(<<"O","p","e","n">>)}}
  /\ ds_query \in
       {[variable |-> v, sector |-> sc, region |-> r, start |-> y.s, end |-> y.e] :
          v \in {NoneVal, Some(<<"C","O","2">>), Some(<<"n","2","o">>)},
          sc \in {NoneVal, Some(<<"e","n","e","r","g","y">>)},
          r \in {NoneVal, Some(<<"e","u","r","o","p","e">>)},
          y \in {[s |-> NoneVal, e |-> NoneVal], [s |-> Some(2000), e |-> NoneVal],
                 [s |-> Some(2000), e |-> Some(2029)], [s |-> Some(2029), e |-> Some(2000)]}}
  /\ ds_pc = "call"
  /\ ds_result = NoneVal
  /\ IdleExcept({"dataset"})

\* a call of score_dataset(ds_doc, ds_query)
ScoreDataset ==
  /\ ds_pc = "call"
  /\ \E r \in {score_dataset(ds_doc, ds_query)} :
       /\ ds_pc' = r.outcome
       /\ ds_result' = r.result
  /\ UNCHANGED <<ds_doc, ds_query>>
  /\ UNCHANGED <<parseVars, scoreVars, coverageVars, simVars, matchVars, rankVars>>
  /\ UNCHANGED chatVars

SpecDataset == InitDataset /\ [][ScoreDataset]_vars

(***************************************************************************)
(* Specification of the guided chat flow: requests to /api/chat with a     *)
(* message of a small pool and any answer of the intent model, and         *)
(* requests to /api/reset, in any order                                    *)
(***************************************************************************)
InitChat ==
  /\ session_states = NoneVal
  /\ last_request = "none"
  /\ IdleExcept({"chat"})

\* POST /api/chat
Chat ==
  /\ \E message \in {<<>>, <<"c","o","n","f","i","r","m">>, P_Asia, T_y2020, <<"2","0","5","0","-","1","2","-","3","1">>,
                     <<"c","h","a","n","g","e"," ","r","e","g","i","o","n"," ","t","o"," ","e","u","r","o","p","e">>, <<"s","e","t"," ","e","n","d"," ","d","a","t","e"," ","t","o"," ","2","0","5","0">>},
        llm_answer \in {NoneVal} \cup
          {Some([intent |-> i, field |-> f, value |-> v]) :
             i \in {NoneVal, Some("NEXT"), Some("MODIFY"), Some("RESET"), Some("CONFIRM")},
             f \in {NoneVal, Some("start_date"), Some("unit")},
             v \in {NoneVal, Some(T_y2050)}} :
       \* an empty message is answered 400 before the session is looked up
       IF message = <<>> THEN UNCHANGED session_states
       ELSE \E state \in (IF session_states = NoneVal THEN {reset_session}
                          ELSE session_states) :
              session_states' =
                Some(chat(state, message, parse_intent_with_groq(message, llm_answer)))
  /\ last_request' = "chat"
  /\ UNCHANGED <<parseVars, scoreVars, coverageVars, simVars, matchVars, rankVars>>
  /\ UNCHANGED datasetVars

\* POST /api/reset
ResetSession ==
  /\ session_states' = Some(reset_session)
  /\ last_request' = "reset"
  /\ UNCHANGED <<parseVars, scoreVars, coverageVars, simVars, matchVars, rankVars>>
  /\ UNCHANGED datasetVars

SpecChat == InitChat /\ [][Chat \/ ResetSession]_vars

(***************************************************************************)
(* Specification of the guarded divisions: score_provider and              *)
(* score_candidates                                                        *)
(***************************************************************************)
SpecGuards ==
  (InitScore \/ InitRank) /\ [][ScoreProvider \/ ScoreCandidates]_vars

(***************************************************************************)
(* Claims about parse_query (checked under SpecParse)                      *)
(***************************************************************************)
\* the tokens parse_query iterates over
TokensOf(t) == Split(Lower(t))

\* the rule that consumes a token, by the documented precedence:
\* 1 scenario pattern, 2 pipe variable, 3 region gazetteer,
\* 4 granularity keyword, 5 four-digit year, 6 bare variable, 0 none
RuleOf(t) ==
  CASE scen_re(t) -> 1
    [] ~scen_re(t) /\ var_pipe_re(t) -> 2
    [] ~scen_re(t) /\ ~var_pipe_re(t) /\ t \in known_regions -> 3
    [] ~scen_re(t) /\ ~var_pipe_re(t) /\ t \notin known_regions
         /\ t \in granularity_keywords -> 4
    [] ~scen_re(t) /\ ~var_pipe_re(t) /\ t \notin known_regions
         /\ t \notin granularity_keywords /\ year_re(t) -> 5
    [] ~scen_re(t) /\ ~var_pipe_re(t) /\ t \notin known_regions
         /\ t \notin granularity_keywords /\ ~year_re(t) /\ t \in bare_variables -> 6
    [] OTHER -> 0

IsScenarioToken(t) == RuleOf(t) = 1

IsVariableToken(t) == RuleOf(t) \in {2, 6}

IsRegionToken(t) == RuleOf(t) = 3

IsGranularityToken(t) == RuleOf(t) = 4

IsYearToken(t) == RuleOf(t) = 5

MapSeq(Op(_), s) == [i \in 1..Len(s) |-> Op(s[i])]

LastOrNone(s) == IF s = <<>> THEN NoneVal ELSE Some(s[Len(s)])

NthOrNone(s, n) == IF Len(s) >= n THEN Some(s[n]) ELSE NoneVal

\* C4 (as claimed): parse_query never raises, whatever the text
C4_NeverRaises == pq_pc # "raised"

\* C5 (as claimed): the first year token sets start_year, the second sets
\* end_year and every later year token is ignored
C5_YearsAssignedOnce ==
  pq_pc = "returned" =>
    LET ys == MapSeq(IntOf, SelectSeq(TokensOf(text), IsYearToken)) IN
      /\ parsed.start_year = NthOrNone(ys, 1)
      /\ parsed.end_year = NthOrNone(ys, 2)

\* C6: every token is consumed by the first rule that matches it, in the
\* order scenario, pipe variable, region, granularity, year, bare variable;
\* variables and scenarios keep input order and duplicates, and granularity
\* is the last granularity keyword of the text
C6_Precedence ==
  pq_pc = "returned" =>
    LET ts == TokensOf(text) IN
      /\ parsed.scenarios = MapSeq(Upper, SelectSeq(ts, IsScenarioToken))
      /\ parsed.variables = SelectSeq(ts, IsVariableToken)
      /\ parsed.regions = MapSeq(Capitalize, SelectSeq(ts, IsRegionToken))
      /\ parsed.granularity = LastOrNone(SelectSeq(ts, IsGranularityToken))

\* C6 witness: a returned parse of a text with a token that matches both the
\* scenario pattern and the pipe pattern and a repeated pipe variable
C6_Witness ==
  /\ pq_pc = "returned"
  /\ text = Join(<<T_scen_pipe, Q_gdp_ppp, Q_gdp_ppp>>)
  /\ parsed.scenarios = <<Upper(T_scen_pipe)>>
  /\ parsed.variables = <<Q_gdp_ppp, Q_gdp_ppp>>


\* C7: 'ssp2 gdp|ppp india 2020 2050 annual' parses to scenarios ['SSP2'],
\* variables ['gdp|ppp'], regions ['India'], 2020, 2050, 'annual'
C7_Example ==
  (pq_pc # "call" /\ text = ExampleText) =>
    /\ pq_pc = "returned"
    /\ parsed = [variables |-> <<<<"g","d","p","|","p","p","p">>>>,
                 regions |-> <<<<"I","n","d","i","a">>>>,
                 scenarios |-> <<<<"S","S","P","2">>>>,
                 granularity |-> Some(<<"a","n","n","u","a","l">>),
                 start_year |-> Some(2020),
                 end_year |-> Some(2050)]

C7_Witness == pq_pc = "returned" /\ text = ExampleText

(***************************************************************************)
(* Claims about score_provider (checked under SpecScore)                   *)
(***************************************************************************)
\* exact or substring overlap of two names, ignoring case
Overlap(a, b) ==
  \/ Lower(a) = Lower(b)
  \/ Contains(Lower(a), Lower(b))
  \/ Contains(Lower(b), Lower(a))

\* exactOrSubstring of the specification, in tenths
ExactOrSubstring(a, b) ==
  IF Lower(a) = Lower(b) THEN 10 ELSE IF Overlap(a, b) THEN 8 ELSE 0

NoRegionOverlap(p, q) ==
  \A i \in 1..Len(q.regions) : \A j \in 1..Len(p.regions) :
     ~Overlap(q.regions[i], p.regions[j])

\* the call returned and was not rejected by the region gate
Scored == sp_pc = "returned" /\ sp_result.explanation # NoneVal

RECURSIVE SumOver(_, _)
SumOver(f, n) == IF n = 0 THEN 0 ELSE f[n] + SumOver(f, n - 1)

\* C1: a query that names regions and a provider none of whose regions
\* overlaps any of them give score 0.0 and no explanation, whatever the rest
C1_RegionGate ==
  (sp_pc # "call" /\ query.regions # <<>> /\ NoRegionOverlap(provider, query)) =>
     /\ sp_pc = "returned"
     /\ sp_result.score = ZeroF
     /\ sp_result.explanation = NoneVal

\* C1 witness: a rejected provider that has regions, matches the query's
\* granularity, scenarios and years and would have scored otherwise
C1_Witness ==
  /\ sp_pc = "returned"
  /\ query.regions = <<Q_India>>
  /\ provider.regions = <<P_Asia>>
  /\ query.granularity = Some(S_annual) /\ provider.granularity = Some(S_annual)
  /\ query.scenarios = <<Q_SSP2>> /\ provider.scenarios = <<P_SSP2>>
  /\ query.start_year = Some(2020) /\ query.end_year = Some(2050)
  /\ sp_result.score = ZeroF
  /\ sp_result.explanation = NoneVal

\* C2 (as claimed): the variable contribution is 0.40 times the average,
\* over ALL tokens of query.variables, of the token's best similarity
C2_VariableAverageOverAllTokens ==
  (Scored /\ query.variables # <<>>) =>
     LET best == [i \in 1..Len(query.variables) |->
                    MaxOf({var_match(query.variables[i], provider.variables[j]) :
                             j \in 1..Len(provider.variables)})]
     IN sp_result.contrib.var =
          Frac(40 * SumOver(best, Len(best)), Len(query.variables) * 1000)

\* C8: the scenario contribution is 0.25 times the sum of exactOrSubstring
\* over all (query scenario, provider scenario) pairs, divided by
\* len(query.scenarios); it is 0 when the query has no scenarios
C8_ScenarioScore ==
  Scored =>
     LET nq == Len(query.scenarios)
         np == Len(provider.scenarios)
         sim == [k \in 1..(nq * np) |->
                   ExactOrSubstring(query.scenarios[((k - 1) \div np) + 1],
                                    provider.scenarios[((k - 1) % np) + 1])]
     IN IF nq = 0 THEN sp_result.contrib.scen = ZeroF
        ELSE sp_result.contrib.scen = Frac(25 * SumOver(sim, nq * np), nq * 1000)

\* C8 witness: two query scenarios, one of which matches two provider
\* scenarios (1.0 and 0.8): 0.25 * 1.8 / 2 = 0.225
C8_Witness ==
  /\ Scored
  /\ query.scenarios = <<Q_SSP2, Q_SSP1>>
  /\ provider.scenarios = <<P_SSP2, P_SSP2_45>>
  /\ sp_result.contrib.scen = Frac(225, 1000)

\* C9 (as claimed): the score lies in 0.0 .. 0.85 and no dimension
\* contributes more than its weight
C9_ScoreRange ==
  sp_pc = "returned" =>
     /\ LeqF(ZeroF, sp_result.score)
     /\ LeqF(sp_result.score, Frac(85, 100))
     /\ LeqF(sp_result.contrib.var, Frac(40, 100))
     /\ LeqF(sp_result.contrib.scen, Frac(25, 100))
     /\ LeqF(sp_result.contrib.gran, Frac(10, 100))
     /\ LeqF(sp_result.contrib.avail, Frac(10, 100))

\* C10 (as claimed): 0.10 is added for availability if and only if both
\* years of the query are set and the provider's range contains them
C10_AvailabilityIffContained ==
  Scored =>
     LET contained ==
           /\ query.start_year # NoneVal /\ query.end_year # NoneVal
           /\ \A sy \in query.start_year : provider.years.min <= sy
           /\ \A ey \in query.end_year : provider.years.max >= ey
     IN /\ contained => sp_result.contrib.avail = Frac(10, 100)
        /\ ~contained => sp_result.contrib.avail = ZeroF

\* C10, the part that the code does satisfy: for years other than 0 the
\* amount is 0.10 exactly when both years are set and contained
C10_AvailabilityNonZeroYears ==
  (Scored /\ 0 \notin query.start_year /\ 0 \notin query.end_year) =>
     LET contained ==
           /\ query.start_year # NoneVal /\ query.end_year # NoneVal
           /\ \A sy \in query.start_year : provider.years.min <= sy
           /\ \A ey \in query.end_year : provider.years.max >= ey
     IN sp_result.contrib.avail = IF contained THEN Frac(10, 100) ELSE ZeroF

(***************************************************************************)
(* Claims about the coverage operations (checked under SpecCoverage)       *)
(***************************************************************************)
\* C3 (as claimed): when the store cannot be reached or the aggregation
\* query fails, the operation ends with an error, never with a metric list
\* or a recommendation result in its place
C3_StoreFailureSurfaced ==
  (cov_pc \in {"metrics_done", "recommend_done"} /\ db_state # "up") =>
     cov_result.outcome = "raised"

(***************************************************************************)
(* Claims about the helper matchers (checked under SpecSim)                *)
(***************************************************************************)
\* two characters that are the same letter in either case, or the same
\* character
SameIgnoringCase(x, y) ==
  \/ x = y
  \/ \E k \in 1..26 : {x, y} = {UpperLetters[k], LowerLetters[k]}

EqualIgnoringCase(a, b) ==
  /\ Len(a) = Len(b)
  /\ \A i \in 1..Len(a) : SameIgnoringCase(a[i], b[i])

\* p occurs in s at some offset, ignoring case
ContainedIgnoringCase(p, s) ==
  \E off \in 0..(Len(s) - Len(p)) :
    \A i \in 1..Len(p) : SameIgnoringCase(s[off + i], p[i])

\* the part of q before its first "|" (all of q when it has none)
BeforeFirstPipe(q) ==
  LET bars == {i \in 1..Len(q) : q[i] = "|"}
  IN IF bars = {} THEN q
     ELSE SubSeq(q, 1, (CHOOSE i \in bars : \A j \in bars : i <= j) - 1)

\* C14: semantic_match(a, b) is 1.0 when a and b are equal ignoring case,
\* else 0.8 when either contains the other ignoring case, else 0.0; query
\* region 'India' against provider region 'World' gives 0.0
C14_ExactOrSubstring ==
  sim_pc = "returned" =>
    /\ sim_result.semantic =
          IF EqualIgnoringCase(sim_a, sim_b) THEN 10
          ELSE IF \/ ContainedIgnoringCase(sim_a, sim_b)
                  \/ ContainedIgnoringCase(sim_b, sim_a) THEN 8
          ELSE 0
    /\ (sim_a = Q_India /\ sim_b = P_World) => sim_result.semantic = 0

C14_Witness ==
  /\ sim_pc = "returned"
  /\ sim_a = <<"a", "|", "b">>
  /\ sim_b = <<"|">>
  /\ sim_result.semantic = 8

\* C15: var_match(q, p) is 1.0 when q equals p ignoring case, else 0.8
\* when q is a substring of p, else 0.5 when the part of q before its first
\* '|' is a substring of p or p is a substring of q, else 0.0; a token equal
\* ignoring case to some provider variable gets best similarity 1.0
C15_VariableSimilarity ==
  sim_pc = "returned" =>
    /\ sim_result.var =
          IF EqualIgnoringCase(sim_a, sim_b) THEN 10
          ELSE IF ContainedIgnoringCase(sim_a, sim_b) THEN 8
          ELSE IF \/ ContainedIgnoringCase(BeforeFirstPipe(sim_a), sim_b)
                  \/ ContainedIgnoringCase(sim_b, sim_a) THEN 5
          ELSE 0
    /\ (\E j \in 1..Len(sim_pvars) : EqualIgnoringCase(sim_a, sim_pvars[j]))
         => sim_result.best = 10

C15_Witness ==
  /\ sim_pc = "returned"
  /\ sim_a = <<"a", "|", "b">>
  /\ sim_b = <<"A", "|", "b">>
  /\ sim_result.var = 10
  /\ sim_pvars = << <<"A">>, sim_b >>
  /\ sim_result.best = 10

(***************************************************************************)
(* Claims about match_providers (checked under SpecMatch)                  *)
(***************************************************************************)
\* the position in the catalog of the provider with the given id
CatalogIndex(id) == CHOOSE i \in 1..Len(catalog) : catalog[i].id = id

\* the provider with the given id is in the returned list
Listed(id) ==
  \E k \in 1..Len(mp_result.providers) : mp_result.providers[k].provider_id = id

\* C11: the empty string parses to a Query with empty variables, regions
\* and scenarios and unset granularity, start_year and end_year; every
\* provider scores 0 against it without error, and match_providers returns
\* an empty providers list
C11_EmptyQuery ==
  (mp_pc \in {"returned", "raised"} /\ mp_text = <<>>) =>
     /\ mp_pc = "returned"
     /\ mp_result.parsedQuery.variables = <<>>
     /\ mp_result.parsedQuery.regions = <<>>
     /\ mp_result.parsedQuery.scenarios = <<>>
     /\ mp_result.parsedQuery.granularity = NoneVal
     /\ mp_result.parsedQuery.start_year = NoneVal
     /\ mp_result.parsedQuery.end_year = NoneVal
     /\ Len(mp_result.scores) = Len(catalog)
     /\ \A i \in 1..Len(catalog) :
          /\ mp_result.scores[i].outcome = "returned"
          /\ mp_result.scores[i].score = ZeroF
     /\ mp_result.providers = <<>>

\* C11 witness: the empty text against a catalog of two providers, one of
\* them without the granularity key
C11_Witness ==
  /\ mp_pc = "returned"
  /\ mp_text = <<>>
  /\ Len(catalog) = 2
  /\ catalog[1].granularity = NoneVal
  /\ mp_result.scores[2].score = ZeroF
  /\ mp_result.providers = <<>>

\* C12: a catalog provider is in the returned list if and only if its score
\* for the parsed query is strictly positive; a provider rejected by the
\* region gate is absent; no provider is listed twice
C12_Membership ==
  mp_pc = "returned" =>
     /\ \A i \in 1..Len(catalog) :
          /\ Listed(catalog[i].id) <=> LtF(ZeroF, mp_result.scores[i].score)
          /\ (/\ mp_result.parsedQuery.regions # <<>>
              /\ NoRegionOverlap(catalog[i], mp_result.parsedQuery))
             => ~Listed(catalog[i].id)
     /\ \A k \in 1..Len(mp_result.providers) :
          \E i \in 1..Len(catalog) :
            /\ mp_result.providers[k].provider_id = catalog[i].id
            /\ mp_result.providers[k].score = mp_result.scores[i].score
     /\ \A k1, k2 \in 1..Len(mp_result.providers) :
          mp_result.providers[k1].provider_id = mp_result.providers[k2].provider_id
            => k1 = k2

\* C12 witness: of two providers the one rejected by the region gate is
\* left out and the other is listed
C12_Witness ==
  /\ mp_pc = "returned"
  /\ mp_result.parsedQuery.regions # <<>>
  /\ Len(catalog) = 2
  /\ NoRegionOverlap(catalog[1], mp_result.parsedQuery)
  /\ ~Listed(catalog[1].id)
  /\ Listed(catalog[2].id)

\* C13: the returned list is sorted non-increasing by score, and two
\* providers of equal score stand in their catalog order
C13_Ordering ==
  mp_pc = "returned" =>
     \A k1, k2 \in 1..Len(mp_result.providers) :
        k1 < k2 =>
          /\ LeqF(mp_result.providers[k2].score, mp_result.providers[k1].score)
          /\ mp_result.providers[k1].score = mp_result.providers[k2].score
               => CatalogIndex(mp_result.providers[k1].provider_id)
                    < CatalogIndex(mp_result.providers[k2].provider_id)

\* C13 witness: two providers of equal positive score, listed in catalog
\* order
C13_Witness ==
  /\ mp_pc = "returned"
  /\ Len(mp_result.providers) = 2
  /\ mp_result.providers[1].score = mp_result.providers[2].score
  /\ mp_result.providers[1].provider_id = catalog[1].id
  /\ mp_result.providers[2].provider_id = catalog[2].id

(***************************************************************************)
(* Claims about score_candidates (checked under SpecRank)                  *)
(***************************************************************************)
\* the CoverageMetric fields of a scored candidate
MetricFields(c) ==
  [provider |-> c.provider, model |-> c.model,
   variable_coverage_count |-> c.variable_coverage_count,
   region_coverage_count |-> c.region_coverage_count,
   min_year |-> c.min_year, max_year |-> c.max_year]

\* the position in the input list of the candidate of the given provider
InputIndex(p) ==
  CHOOSE i \in 1..Len(metrics_before) : metrics_before[i].provider = p

\* C16: the output of score_candidates is a permutation of the input
\* candidates, sorted non-increasing by score, and candidates of equal
\* score keep their relative input order
C16_RankOrdering ==
  rank_pc = "returned" =>
     /\ Len(scored) = Len(metrics_before)
     /\ \A i \in 1..Len(metrics_before) :
          \E k \in 1..Len(scored) : MetricFields(scored[k]) = metrics_before[i]
     /\ \A k1, k2 \in 1..Len(scored) :
          k1 < k2 =>
            /\ scored[k1].score >= scored[k2].score
            /\ scored[k1].score = scored[k2].score
                 => InputIndex(scored[k1].provider) < InputIndex(scored[k2].provider)

\* C16 witness: the second candidate scores higher and is returned first
C16_Witness ==
  /\ rank_pc = "returned"
  /\ Len(scored) = 2
  /\ scored[1].provider = metrics_before[2].provider
  /\ scored[1].score > scored[2].score

\* all candidates of the input carry the same variable_coverage_count
IdenticalVariableCounts ==
  \A i, j \in 1..Len(metrics_before) :
     metrics_before[i].variable_coverage_count = metrics_before[j].variable_coverage_count

\* C17 as stated: when every candidate has the same variable_coverage_count,
\* zero included, var_score is 1.0 for every candidate
C17_IdenticalCountsNormalizeToOne ==
  (rank_pc = "returned" /\ IdenticalVariableCounts) =>
     \A i \in 1..Len(parts) : parts[i].var_score = Frac(1, 1)

\* C17 amended: when every candidate has the same positive
\* variable_coverage_count, var_score is 1.0 for every candidate
C17_IdenticalPositiveCounts ==
  (/\ rank_pc = "returned"
   /\ IdenticalVariableCounts
   /\ \A i \in 1..Len(metrics_before) : metrics_before[i].variable_coverage_count > 0) =>
     /\ Len(parts) = Len(metrics_before)
     /\ \A i \in 1..Len(parts) : parts[i].var_score = Frac(1, 1)

\* C17 witness: two candidates with the same positive count
C17_Witness ==
  /\ rank_pc = "returned"
  /\ Len(metrics_before) = 2
  /\ metrics_before[1].variable_coverage_count = 2
  /\ metrics_before[2].variable_coverage_count = 2
  /\ parts[1].var_score = Frac(1, 1)
  /\ parts[2].var_score = Frac(1, 1)

\* the greatest variable_coverage_count of the input, or 1 when it is 0
MaxVarsOrOne ==
  LET mx == MaxOf({metrics_before[i].variable_coverage_count : i \in 1..Len(metrics_before)})
  IN IF mx = 0 THEN 1 ELSE mx

\* the greatest region_coverage_count of the input, or 1 when it is 0
MaxRegionsOrOne ==
  LET mx == MaxOf({metrics_before[i].region_coverage_count : i \in 1..Len(metrics_before)})
  IN IF mx = 0 THEN 1 ELSE mx

\* 100 * (0.4*var_score + 0.3*reg_score + 0.2*min(duration/30, 1) + 0.1*0.5)
\* of the i-th input candidate, as the numerator over RawDenominator
RawNumerator(i) ==
  LET m == metrics_before[i]
      duration == m.max_year - m.min_year
      capped == IF duration < 30 THEN duration ELSE 30
  IN 40 * m.variable_coverage_count * MaxRegionsOrOne * 30
       + 30 * m.region_coverage_count * MaxVarsOrOne * 30
       + 20 * capped * MaxVarsOrOne * MaxRegionsOrOne
       + 5 * MaxVarsOrOne * MaxRegionsOrOne * 30

RawDenominator == MaxVarsOrOne * MaxRegionsOrOne * 30

\* s is the integer nearest to RawNumerator(i) / RawDenominator, the even
\* one of the two when they are equally near
IsRounded(s, i) ==
  LET diff == RawNumerator(i) - s * RawDenominator
      dist == IF diff < 0 THEN 0 - diff ELSE diff
  IN /\ 2 * dist <= RawDenominator
     /\ 2 * dist = RawDenominator => s % 2 = 0

\* the score of every candidate is the rounded formula value
ScoresFollowFormula ==
  /\ Len(metrics) = Len(metrics_before)
  /\ \A i \in 1..Len(metrics_before) :
       /\ metrics[i].provider = metrics_before[i].provider
       /\ IsRounded(metrics[i].score, i)

C19_InputNotMutated ==
  rank_pc = "returned" => metrics = metrics_before

(***************************************************************************)
(* Claims about the guarded divisions (checked under SpecGuards)           *)
(***************************************************************************)
\* every candidate of the input has 0 in the given count
AllZero(field) ==
  \A i \in 1..Len(metrics_before) : metrics_before[i][field] = 0

\* one of the lists the variable and scenario averages are taken over is empty
SomeListEmpty ==
  \/ query.variables = <<>>
  \/ query.scenarios = <<>>
  \/ provider.variables = <<>>
  \/ provider.scenarios = <<>>

\* C20: score_candidates returns an empty list for an empty metric list and,
\* when every variable_coverage_count (or every region_coverage_count) is
\* 0, completes with that normalized component 0 for every candidate;
\* score_provider raises no division error when the query's or the
\* provider's variables or scenarios are empty, and returns whenever the
\* provider carries the granularity key
C20_DivisionGuards ==
  /\ rank_pc \in {"returned", "raised"} =>
       /\ rank_pc = "returned"
       /\ Len(parts) = Len(metrics_before)
       /\ metrics_before = <<>> => scored = <<>>
       /\ AllZero("variable_coverage_count")
            => \A i \in 1..Len(parts) : parts[i].var_score = ZeroF
       /\ AllZero("region_coverage_count")
            => \A i \in 1..Len(parts) : parts[i].reg_score = ZeroF
  /\ (sp_pc \in {"returned", "raised", "zero_division"} /\ SomeListEmpty) =>
       /\ sp_pc # "zero_division"
       /\ provider.granularity # NoneVal => sp_pc = "returned"

\* C20 witness: two candidates without any variable or region are scored
\* with both normalized components 0
C20_Witness ==
  /\ rank_pc = "returned"
  /\ Len(metrics_before) = 2
  /\ AllZero("variable_coverage_count")
  /\ AllZero("region_coverage_count")
  /\ parts[1].var_score = ZeroF /\ parts[2].reg_score = ZeroF
  /\ Len(scored) = 2

(***************************************************************************)
(* Further claims about score_provider (checked under SpecScore)           *)
(***************************************************************************)
\* C21 (as claimed): a provider without the granularity field, scored
\* against a query whose granularity is set, is scored without error and
\* gets no granularity contribution; with the field present, 0.10 is added
\* if and only if the query's granularity is set and equal to the provider's
C21_MissingGranularityIsNoError ==
  sp_pc # "call" =>
     /\ (provider.granularity = NoneVal /\ query.granularity # NoneVal) =>
           (sp_pc = "returned" /\ sp_result.contrib.gran = ZeroF)
     /\ (Scored /\ provider.granularity # NoneVal) =>
           sp_result.contrib.gran =
             IF query.granularity # NoneVal /\ query.granularity = provider.granularity
             THEN Frac(10, 100) ELSE ZeroF

\* the values of a list
Elements(s) == {s[i] : i \in 1..Len(s)}

\* C25: in a returned explanation every matched entry has a similarity
\* above 0 and pairs a value of the query with a value of the provider;
\* missing names exactly the requested dimensions without a recorded match;
\* no dimension is both matched and missing; regions is never missing
C25_ExplanationConsistent ==
  Scored =>
     \A e \in sp_result.explanation :
        /\ \A k \in DOMAIN e.matched : \A i \in 1..Len(e.matched[k]) :
              LET m == e.matched[k][i] IN
                /\ m.similarity > 0
                /\ m.query \in Elements(query[k])
                /\ IF k = "variables"
                   THEN m.provider # NoneVal /\ m.provider \subseteq Elements(provider[k])
                   ELSE m.provider \in Elements(provider[k])
        /\ DOMAIN e.matched \subseteq {"variables", "regions", "scenarios"}
        /\ Elements(e.missing) =
              {k \in {"variables", "regions", "scenarios"} :
                 query[k] # <<>> /\ k \notin DOMAIN e.matched}
        /\ Cardinality(Elements(e.missing)) = Len(e.missing)
        /\ Elements(e.missing) \cap DOMAIN e.matched = {}
        /\ "regions" \notin Elements(e.missing)

\* a query with a region, a variable and a scenario, scored against a
\* provider that matches the region and the variable but has no scenario
C25_Witness ==
  /\ Scored
  /\ query.regions # <<>> /\ query.variables # <<>> /\ query.scenarios # <<>>
  /\ \A e \in sp_result.explanation :
        /\ DOMAIN e.matched = {"variables", "regions"}
        /\ e.missing = <<"scenarios">>

(***************************************************************************)
(* Further claims about compute_coverage_metrics (checked under            *)
(* SpecCoverage)                                                           *)
(***************************************************************************)
\* the rows that satisfy the filters as the claim C22 states them: the year
\* within the bounds, the region equal to the requested one (any region when
\* unset or "Global"), the variable classified in the requested sector (any
\* row at all when the sector is unset or "All Sectors")
ClaimedRows(args) ==
  {so \in store :
     /\ \A sy \in args.start_year : sy <= so.year
     /\ \A ey \in args.end_year : so.year <= ey
     /\ (args.region \in {NoneVal, Some("Global")} \/ args.region = Some(so.region))
     /\ \/ args.sector \in {NoneVal, Some("All Sectors")}
        \/ \E vs \in variable_semantics :
              vs.variable = so.variable /\ args.sector = Some(vs.sector)}

\* C22 (as claimed): with the store reachable, compute_coverage_metrics
\* returns exactly one metric per (provider, model) pair that has a row
\* satisfying the filters, classified or not when the sector is unset, with
\* the distinct counts and the year bounds of those rows
C22_MetricPerObservedPair ==
  (cov_pc = "metrics_done" /\ db_state = "up") =>
     /\ Elements(cov_result.metrics) = Aggregate(ClaimedRows(cov_args))
     /\ Len(cov_result.metrics) = Cardinality(Aggregate(ClaimedRows(cov_args)))

C26_DocumentedFieldsSuffice ==
  (/\ mp_pc \in {"returned", "raised"}
   /\ ~parse_query(mp_text).raised
   /\ \A i \in 1..Len(catalog) : catalog[i].granularity # NoneVal)
  => mp_pc = "returned"

\* the query names regions and nothing else
RegionOnly(q) ==
  /\ q.regions # <<>>
  /\ q.variables = <<>> /\ q.scenarios = <<>>
  /\ q.granularity = NoneVal /\ q.start_year = NoneVal /\ q.end_year = NoneVal

\* C27: a provider's score is the sum of its variable, scenario,
\* granularity and temporal contributions, a matched region adding nothing;
\* a listed provider has one of the four positive; a query that names only
\* regions gets an empty providers list
C27_RegionAddsNothing ==
  mp_pc = "returned" =>
     /\ \A i \in 1..Len(catalog) :
          LET c == mp_result.scores[i].contrib IN
            /\ mp_result.scores[i].score =
                 AddF(AddF(c.var, c.scen), AddF(c.gran, c.avail))
            /\ Listed(catalog[i].id) =>
                 \/ LtF(ZeroF, c.var) \/ LtF(ZeroF, c.scen)
                 \/ LtF(ZeroF, c.gran) \/ LtF(ZeroF, c.avail)
     /\ RegionOnly(mp_result.parsedQuery) => mp_result.providers = <<>>

\* a query that names only a region, against a catalog with a provider
\* that covers the region and so passes the gate
C27_Witness ==
  /\ mp_pc = "returned"
  /\ RegionOnly(mp_result.parsedQuery)
  /\ \E i \in 1..Len(catalog) :
        /\ ~NoRegionOverlap(catalog[i], mp_result.parsedQuery)
        /\ mp_result.scores[i].explanation # NoneVal
  /\ mp_result.providers = <<>>

(***************************************************************************)
(* A further claim about var_match (checked under SpecSim)                 *)
(***************************************************************************)
\* C28 (as claimed): for a non-empty token q and a non-empty provider
\* variable p, var_match(q, p) > 0 only if q is contained in p, or p in q,
\* or a non-empty part of q before its first "|" is contained in p
C28_PositiveOnlyOnOverlap ==
  (sim_pc = "returned" /\ sim_a # <<>> /\ sim_b # <<>> /\ sim_result.var > 0) =>
     \/ ContainedIgnoringCase(sim_a, sim_b)
     \/ ContainedIgnoringCase(sim_b, sim_a)
     \/ /\ BeforeFirstPipe(sim_a) # <<>>
        /\ ContainedIgnoringCase(BeforeFirstPipe(sim_a), sim_b)

(***************************************************************************)
(* A further claim about score_candidates (checked under SpecRank)         *)
(***************************************************************************)
\* C29: for a non-empty list with min_year <= max_year in each record,
\* every score lies in 5 .. 95
C29_ScoreBetween5And95 ==
  (/\ rank_pc = "returned"
   /\ \A i \in 1..Len(metrics_before) :
         metrics_before[i].min_year <= metrics_before[i].max_year) =>
     \A k \in 1..Len(scored) : 5 <= scored[k].score /\ scored[k].score <= 95

\* the best possible candidate (greatest counts, fifty years of data)
\* beside one with no coverage and a single year: 95 and 5
C29_Witness ==
  /\ rank_pc = "returned"
  /\ Len(scored) = 2
  /\ metrics_before[1].variable_coverage_count = 0
  /\ metrics_before[1].region_coverage_count = 0
  /\ metrics_before[1].min_year = metrics_before[1].max_year
  /\ metrics_before[2].variable_coverage_count > 0
  /\ metrics_before[2].region_coverage_count > 0
  /\ metrics_before[2].max_year - metrics_before[2].min_year = 50
  /\ scored[1].score = 95
  /\ scored[2].score = 5

(***************************************************************************)
(* Claims about score_dataset (checked under SpecDataset)                  *)
(***************************************************************************)
\* the result has the keys and the bounds of the claim C24: score in
\* [0.0, 1.0], coverage_pct in [0.0, 100.0], and a unit_compatibility
\* record with compatible, factor and dataset_unit
WellFormedResult(r) ==
  /\ {"id", "score", "breakdown", "reasons", "coverage_pct", "unit_compatibility"}
       \subseteq DOMAIN r
  /\ 0 <= r.score /\ r.score <= 10000
  /\ 0 <= r.coverage_pct /\ r.coverage_pct <= 10000
  /\ DOMAIN r.unit_compatibility = {"compatible", "factor", "dataset_unit"}

\* C24 (as claimed): for every dataset document and every query
\* score_dataset returns a result with those keys and bounds
C24_ScoreDatasetBounds ==
  ds_pc \in {"returned", "raised"} =>
     /\ ds_pc = "returned"
     /\ ds_result # NoneVal
     /\ \A r \in ds_result : WellFormedResult(r)

\* C24, the part that the code does satisfy: every result that is returned
\* has the keys and the bounds
C24_ReturnedResultsBounded ==
  ds_pc = "returned" => (ds_result # NoneVal /\ \A r \in ds_result : WellFormedResult(r))

(***************************************************************************)
(* Claims about the guided chat flow (checked under SpecChat)              *)
(***************************************************************************)
\* the session data holds a region, a start_date and an end_date
AllThreeStored(st) ==
  /\ st.data.region # NoneVal
  /\ st.data.start_date # NoneVal
  /\ st.data.end_date # NoneVal

\* the step stays or advances by one in region, start_date, end_date, review
StepAdvances(a, b) ==
  LET order == <<"region", "start_date", "end_date", "review">>
      Pos(x) == CHOOSE i \in 1..4 : order[i] = x
  IN Pos(b) \in {Pos(a), Pos(a) + 1}

\* a request leaves the step in place or advances it by one, unless it
\* resets the session
C30_StepOrder ==
  [][\A a \in session_states : \A b \in session_states' :
       b = reset_session \/ StepAdvances(a.step, b.step)]_vars

\* once completed, a chat request changes neither step nor data
C30_FrozenOnceCompleted ==
  [][\A a \in session_states : \A b \in session_states' :
       (a.completed /\ last_request' = "chat") => b = a]_vars

==============================================================================
